---- MODULE Spec2Model ----
(***************************************************************************)
(* Model of the QuickBooks gateway client of the extension:                *)
(*   - the CloudEvent codec (utils/cloudEvent.ts),                         *)
(*   - the retrying request client (services/network.ts),                  *)
(*   - the persistent store (utils/persistentStore.ts).                    *)
(* Every component has its own specification over the shared variables;    *)
(* the variables of the other components stay as Init left them.           *)
(***************************************************************************)
EXTENDS Integers, Sequences, FiniteSets, TLC

(***************************************************************************)
(* Bounds of the model.                                                    *)
(***************************************************************************)
\* largest value of options.retries the model passes to postCloudEvent
MaxRetries == 3
\* largest number of set/update calls the owners of the cells make
MaxMutations == 2
\* largest number of writes of the record by other execution contexts
MaxExternal == 1
\* the largest collection the bill cache starts with
MaxBills == 12

(***************************************************************************)
(* Program constants.                                                      *)
(***************************************************************************)
DefaultTimeout == 5000
DefaultRetries == 3
BackoffBaseMs == 1000

(***************************************************************************)
(* JSON values, as JSON.parse yields them.  An object keeps its keys in    *)
(* insertion order (Object.keys order): kv is a sequence of <<key, value>>.*)
(***************************************************************************)
Undefined == [t |-> "undefined"]
JNull == [t |-> "null"]
JStr(s) == [t |-> "str", s |-> s]
JObj(kv) == [t |-> "obj", kv |-> kv]
JArr(a) == [t |-> "arr", a |-> a]
JNum(n) == [t |-> "num", n |-> n]
JBool(b) == [t |-> "bool", b |-> b]

\* the keys the model's documents use, by the two tests the code makes on keys
StartsWithAt(k) == k \in {"@requestID", "@statusCode", "@statusMessage", "@statusSeverity"}
EndsWithRet(k) == k \in {"BillRet", "VendorRet"}

\* index keys of an array, as Object.keys spells them
IndexKey(i) == IF i = 1 THEN "0" ELSE IF i = 2 THEN "1" ELSE "2"

\* !v is false
Truthy(v) ==
    /\ v.t \notin {"undefined", "null"}
    /\ v # JStr("") /\ v # JNum(0) /\ v # JBool(FALSE)
\* typeof v === 'object'
TypeofObject(v) == v.t \in {"obj", "arr", "null"}
\* the test `!v || typeof v !== 'object'` that guards every level of the navigation
NotAnObject(v) == ~Truthy(v) \/ ~TypeofObject(v)

\* Object.keys(v)
Keys(v) ==
    IF v.t = "obj" THEN [i \in DOMAIN v.kv |-> v.kv[i][1]]
    ELSE IF v.t = "arr" THEN [i \in DOMAIN v.a |-> IndexKey(i)]
    ELSE << >>

\* v[k]
Get(v, k) ==
    IF v.t = "obj" /\ \E i \in DOMAIN v.kv : v.kv[i][1] = k
        THEN v.kv[CHOOSE i \in DOMAIN v.kv : v.kv[i][1] = k][2]
    ELSE IF v.t = "arr" /\ \E i \in DOMAIN v.a : IndexKey(i) = k
        THEN v.a[CHOOSE i \in DOMAIN v.a : IndexKey(i) = k]
    ELSE Undefined

\* v?.[k]
OptGet(v, k) == IF v.t \in {"undefined", "null"} THEN Undefined ELSE Get(v, k)

\* v || d
OrDefault(v, d) == IF Truthy(v) THEN v ELSE d

\* the keys of a list of keys, as a set
KeySet(keys) == {keys[i] : i \in DOMAIN keys}

\* keys.find(pred): the first of the keys that is among those the predicate accepts,
\* "" standing for undefined
FindKey(keys, accepted) ==
    IF \E i \in DOMAIN keys : keys[i] \in accepted
        THEN keys[CHOOSE i \in DOMAIN keys :
                    keys[i] \in accepted /\ \A j \in DOMAIN keys : keys[j] \in accepted => i <= j]
        ELSE ""

(***************************************************************************)
(* CloudEvent codec.                                                       *)
(***************************************************************************)
\* a list of required fields that leaves the time out
requiredFields_NoTime == <<"specversion", "id", "source", "type">>
requiredFields == <<"specversion", "id", "source", "type", "time">>

NoDecode == [t |-> "throws"]

\* the defect of answering a container without a response child with the defaults
extractResponseAttributes_Defaults(data) ==
    LET qbxmlMsgsRs == Get(Get(data, "QBXML"), "QBXMLMsgsRs")
        responseKey == FindKey(Keys(qbxmlMsgsRs), {k \in KeySet(Keys(qbxmlMsgsRs)) : ~StartsWithAt(k)})
        specificResponse == Get(qbxmlMsgsRs, responseKey)
    IN IF NotAnObject(qbxmlMsgsRs) THEN JNull
       ELSE [t |-> "attrs",
             requestID |-> OrDefault(Get(specificResponse, "@requestID"),
                              OrDefault(Get(qbxmlMsgsRs, "@requestID"), JStr("N/A"))),
             statusCode |-> OrDefault(Get(specificResponse, "@statusCode"), JStr("N/A")),
             statusMessage |-> OrDefault(Get(specificResponse, "@statusMessage"), JStr("N/A")),
             statusSeverity |-> OrDefault(Get(specificResponse, "@statusSeverity"), JStr("N/A"))]

extractResponseAttributes(data) ==
    IF NotAnObject(data) THEN JNull
    ELSE LET qbxml == Get(data, "QBXML") IN
    IF NotAnObject(qbxml) THEN JNull
    ELSE LET qbxmlMsgsRs == Get(qbxml, "QBXMLMsgsRs") IN
    IF NotAnObject(qbxmlMsgsRs) THEN JNull
    ELSE LET responseKey == FindKey(Keys(qbxmlMsgsRs), {k \in KeySet(Keys(qbxmlMsgsRs)) : ~StartsWithAt(k)}) IN
    IF responseKey = "" THEN JNull
    ELSE LET specificResponse == Get(qbxmlMsgsRs, responseKey) IN
    IF NotAnObject(specificResponse) THEN JNull
    ELSE [t |-> "attrs",
          requestID |-> OrDefault(Get(specificResponse, "@requestID"),
                           OrDefault(Get(qbxmlMsgsRs, "@requestID"), JStr("N/A"))),
          statusCode |-> OrDefault(Get(specificResponse, "@statusCode"), JStr("N/A")),
          statusMessage |-> OrDefault(Get(specificResponse, "@statusMessage"), JStr("N/A")),
          statusSeverity |-> OrDefault(Get(specificResponse, "@statusSeverity"), JStr("N/A"))]

\* the child of the response container the transaction details are read from
txnResponseKeyOf(qbxmlMsgsRs) ==
    FindKey(Keys(qbxmlMsgsRs),
            {k \in KeySet(Keys(qbxmlMsgsRs)) : ~StartsWithAt(k) /\ TypeofObject(Get(qbxmlMsgsRs, k))})

\* the defect of reading the last record of a list
extractTransactionDetails_LastOfList(data) ==
    LET txnResponse == Get(Get(Get(data, "QBXML"), "QBXMLMsgsRs"),
                           txnResponseKeyOf(Get(Get(data, "QBXML"), "QBXMLMsgsRs")))
        found == Get(txnResponse, FindKey(Keys(txnResponse), {k \in KeySet(Keys(txnResponse)) : EndsWithRet(k)}))
        txnDetails == IF found.t = "arr" /\ Len(found.a) > 0 THEN found.a[Len(found.a)] ELSE found
    IN IF txnDetails.t # "obj" THEN JNull
       ELSE [t |-> "txn", TxnID |-> OrDefault(Get(txnDetails, "TxnID"), JStr(""))]

\* the defect of taking a list of records for no record
extractTransactionDetails_NoList(data) ==
    LET txnResponse == Get(Get(Get(data, "QBXML"), "QBXMLMsgsRs"),
                           txnResponseKeyOf(Get(Get(data, "QBXML"), "QBXMLMsgsRs")))
        found == Get(txnResponse, FindKey(Keys(txnResponse), {k \in KeySet(Keys(txnResponse)) : EndsWithRet(k)}))
    IN IF found.t # "obj" THEN JNull
       ELSE [t |-> "txn", TxnID |-> OrDefault(Get(found, "TxnID"), JStr(""))]

extractTransactionDetails(data) ==
    IF NotAnObject(data) THEN JNull
    ELSE LET qbxml == Get(data, "QBXML") IN
    IF NotAnObject(qbxml) THEN JNull
    ELSE LET qbxmlMsgsRs == Get(qbxml, "QBXMLMsgsRs") IN
    IF NotAnObject(qbxmlMsgsRs) THEN JNull
    ELSE LET txnResponseKey == txnResponseKeyOf(qbxmlMsgsRs) IN
    IF txnResponseKey = "" THEN JNull
    ELSE LET txnResponse == Get(qbxmlMsgsRs, txnResponseKey) IN
    IF NotAnObject(txnResponse) THEN JNull
    ELSE LET retKey == FindKey(Keys(txnResponse),
                               {k \in KeySet(Keys(txnResponse)) : ~StartsWithAt(k) /\ EndsWithRet(k)}) IN
    IF retKey = "" THEN JNull
    ELSE LET found == Get(txnResponse, retKey)
             txnDetails == IF found.t = "arr" /\ Len(found.a) > 0 THEN found.a[1] ELSE found
         IN
    IF ~Truthy(txnDetails) \/ ~TypeofObject(txnDetails) \/ txnDetails.t = "arr" THEN JNull
    ELSE [t |-> "txn",
          IsPaid |-> OrDefault(Get(txnDetails, "IsPaid"), JStr("false")),
          OpenAmount |-> OrDefault(Get(txnDetails, "OpenAmount"), JStr("0.00")),
          RefNumber |-> OrDefault(Get(txnDetails, "RefNumber"), JStr("")),
          TimeCreated |-> OrDefault(Get(txnDetails, "TimeCreated"), JStr("")),
          TimeModified |-> OrDefault(Get(txnDetails, "TimeModified"), JStr("")),
          TxnDate |-> OrDefault(Get(txnDetails, "TxnDate"), JStr("")),
          TxnID |-> OrDefault(Get(txnDetails, "TxnID"), JStr("")),
          TxnNumber |-> OrDefault(Get(txnDetails, "TxnNumber"), JStr("")),
          TermsRef |-> [FullName |-> OrDefault(OptGet(Get(txnDetails, "TermsRef"), "FullName"), JStr("")),
                        ListID |-> OrDefault(OptGet(Get(txnDetails, "TermsRef"), "ListID"), JStr(""))],
          VendorRef |-> [FullName |-> OrDefault(OptGet(Get(txnDetails, "VendorRef"), "FullName"), JStr("")),
                         ListID |-> OrDefault(OptGet(Get(txnDetails, "VendorRef"), "ListID"), JStr(""))]]

\* NoDecode stands for the Error decodeCloudEvent throws
decodeCloudEvent(rawPayload) ==
    IF NotAnObject(rawPayload) THEN NoDecode
    ELSE IF \E i \in DOMAIN requiredFields : Get(rawPayload, requiredFields[i]) = Undefined
        THEN NoDecode
    ELSE [t |-> "decoded",
          meta |-> [f \in {requiredFields[i] : i \in DOMAIN requiredFields}
                           \cup {g \in {"datacontenttype", "dataschema"} :
                                    Get(rawPayload, g) # Undefined}
                        |-> Get(rawPayload, f)],
          responseAttributes |-> extractResponseAttributes(Get(rawPayload, "data")),
          transactionDetails |-> extractTransactionDetails(Get(rawPayload, "data"))]

\* the defect of filling the source with the type and the type with the source
encodeCloudEvent_Swapped(type, source, data, id, now) ==
    JObj(<< <<"specversion", JStr("1.0")>>, <<"id", id>>, <<"source", type>>,
            <<"type", source>>, <<"time", now>>,
            <<"datacontenttype", JStr("application/json")>>, <<"data", data>> >>)

\* the envelope encodeCloudEvent builds, given the identifier and the time it draws
encodeCloudEvent(type, source, data, id, now) ==
    JObj(<< <<"specversion", JStr("1.0")>>, <<"id", id>>, <<"source", source>>,
            <<"type", type>>, <<"time", now>>,
            <<"datacontenttype", JStr("application/json")>>, <<"data", data>> >>)

(***************************************************************************)
(* State.                                                                  *)
(***************************************************************************)
VARIABLES
    \* --- postCloudEvent: one call ---
    sendPc,         \* where the call is: "idle", "fetch" (await fetch), "text" (await
                    \* response.text()), "sleep" (await sleep), "returned", "thrown"
    options,        \* [timeout, retries, logger] after the defaults are applied
    cloudEvent,     \* the envelope the call was given
    retryState,     \* [attempt, maxRetries, lastError]
    timers,         \* the armed timeout timers: [id, left], id the attempt that armed it
    aborted,        \* controller.signal.aborted of the current attempt's controller
    response,       \* the Response fetch last resolved with: [status, statusText]
    sleepLeft,      \* ms left of the pending sleep(delay)
    backoffs,       \* the delays passed to sleep so far
    slept,          \* ms elapsed since the pending or last sleep began
    result,         \* what the call gave its caller
    fetchCalls,     \* number of fetch calls made
    sentBodies,     \* the body of every fetch call made
    attemptLog,     \* how each attempt ended: [how, response, body]
    sinkCalls       \* number of calls of options.logger

sendVars == <<sendPc, options, cloudEvent, retryState, timers, aborted, response,
              sleepLeft, backoffs, slept, result, fetchCalls, sentBodies, attemptLog,
              sinkCalls>>

VARIABLES
    \* --- postCloudEvent: two calls at a time ---
    sends           \* per call: [pc, timeout, retryState, timers, aborted, abortedBy,
                    \* response, sleepLeft, slept, backoffs, fetchCalls, log, result]

pairVars == <<sends>>

VARIABLES
    \* --- persistentStore: the cells, the storage area they share, the host ---
    chromeAvailable, \* whether chrome.storage exists in the cells' context
    cells,          \* per cell: [created, synced, value, isInitializing, hydration, readResult]
    storageRec,     \* the record of the cells' key in their storage area, or Absent
    writes,         \* the storage.set calls in flight, oldest first: [cell, value]
    events,         \* per cell: the onChanged notifications not yet delivered
    mutations,      \* number of set/update calls made
    externals,      \* number of writes made by other execution contexts
    lastOp          \* the handler that ran last, and whether it called storage.set

storeVars == <<chromeAvailable, cells, storageRec, writes, events, mutations, externals,
               lastOp>>

VARIABLES
    \* --- quota monitor: the host's usage, the bill cache, one call ---
    bytesInUse,     \* what chrome.storage.local.getBytesInUse() resolves with now
    bills,          \* the value of billCache: the createdAt of each bill, in order
    storageQuota,   \* the value of the storageQuota store
    quotaPc,        \* where the call is: "idle", "measure", "evict measure",
                    \* "remeasure" (awaiting getBytesInUse), "done", "failed"
    quotaCall,      \* the call made: [op, targetPercentage]
    measured,       \* the snapshots checkStorageQuota returned during the call
    eviction        \* what cleanupOldData did during the call, or NoEviction

quotaVars == <<bytesInUse, bills, storageQuota, quotaPc, quotaCall, measured, eviction>>

VARIABLES
    \* --- the codec, called on its own ---
    codecArgs,      \* what encodeCloudEvent was given and drew, NotCalled before
    codecInput,     \* the value decodeCloudEvent is given
    codecResult     \* what the call gave: NotCalled, NoDecode or the decoded event

codecVars == <<codecArgs, codecInput, codecResult>>

otherThanSend == <<pairVars, storeVars, quotaVars, codecVars>>
otherThanPair == <<sendVars, storeVars, quotaVars, codecVars>>
otherThanStore == <<sendVars, pairVars, quotaVars, codecVars>>
otherThanQuota == <<sendVars, pairVars, cells, storageRec, writes, events, mutations,
                    externals, lastOp, codecVars>>
otherThanCodec == <<sendVars, pairVars, storeVars, quotaVars>>

vars == <<sendVars, pairVars, storeVars, quotaVars, codecVars>>

(***************************************************************************)
(* Request client: errors and helpers.                                     *)
(***************************************************************************)
NoError == [name |-> "none"]
NetworkError(cause) == [name |-> "NetworkError", cause |-> cause]
TimeoutError(timeoutMs) == [name |-> "TimeoutError", timeoutMs |-> timeoutMs]
HTTPError(status, statusText, responseBody) ==
    [name |-> "HTTPError", status |-> status, statusText |-> statusText,
     responseBody |-> responseBody]
\* the defect of passing the severity and the status code in each other's place
QBError_Swapped(statusMessage, statusCode, severity) ==
    [name |-> "QBError", statusMessage |-> statusMessage, statusCode |-> severity,
     severity |-> statusCode]
QBError(statusMessage, statusCode, severity) ==
    [name |-> "QBError", statusMessage |-> statusMessage, statusCode |-> statusCode,
     severity |-> severity]
\* the defect of letting a parse failure fall through to the network classification
ParseError_AsNetwork(message) == NetworkError(message)
ParseError(message) == [name |-> "ParseError", message |-> message]

\* the defect of a fixed delay
calculateBackoff_Fixed(attempt) == BackoffBaseMs
calculateBackoff(attempt) == (2 ^ (attempt - 1)) * BackoffBaseMs

\* the defects of retrying too little or too much
isRetryableError_TimeoutOnly(error) == error.name = "TimeoutError"
isRetryableError_NetworkOnly(error) == error.name = "NetworkError"
isRetryableError_Any(error) == error.name # "none"
isRetryableError(error) == error.name \in {"NetworkError", "TimeoutError"}

\* response.ok
Ok(status) == status \in 200..299

\* JSON.parse of a response text: a text is [wf, v], well-formed or not, and v the
\* value it spells
JSONParse(text) == IF text.wf THEN text.v ELSE [t |-> "SyntaxError"]
Text(v) == [wf |-> TRUE, v |-> v]
BadText == [wf |-> FALSE, v |-> JStr("<html>")]
EmptyText == [wf |-> FALSE, v |-> JStr("")]

\* what an attempt that ended without a response, or without its body, logs
NoResponse == [status |-> 0, statusText |-> ""]
NoText == [wf |-> FALSE, v |-> JStr("<no body>")]

\* an option the caller left out is << >>, one it gave is <<value>>
ValueOr(opt, default) == IF opt = << >> THEN default ELSE opt[1]

Returned(decoded) == [kind |-> "returned", decoded |-> decoded]
Thrown(error) == [kind |-> "thrown", error |-> error]
Pending == [kind |-> "pending"]

\* options.logger: left out, a function that returns, a function that throws whenever
\* it is called, a function that throws when it is told the status of a response
NoSink == "none"
QuietSinks == {NoSink, "returns"}
Sinks == QuietSinks \cup {"throws", "throws on status"}
\* what a sink throws
SinkError == [name |-> "Error"]

\* number of sink calls n notices make
Notices(opts, n) == IF opts.logger # NoSink THEN n ELSE 0

\* the defect of a cleanup that leaves the timer armed
cleanup_Noop(tms, id) == tms

\* clearTimeout of the timer the attempt's controller armed
cleanup(tms, id) == {tm \in tms : tm.id # id}

(***************************************************************************)
(* postCloudEvent, cut at its awaits.                                      *)
(***************************************************************************)
\* the defect of a loop that tests after its body: one attempt whatever the maximum
LoopHead_AtLeastOnce(rs, opts, ev, tms, calls) ==
    IF rs.attempt < rs.maxRetries \/ rs.attempt = 0
    THEN /\ sendPc' = "fetch"
         /\ retryState' = [rs EXCEPT !.attempt = @ + 1]
         /\ timers' = tms \cup {[id |-> rs.attempt + 1, left |-> opts.timeout]}
         /\ aborted' = FALSE
         /\ fetchCalls' = fetchCalls + 1
         /\ sentBodies' = Append(sentBodies, Text(ev))
         /\ sinkCalls' = calls + Notices(opts, 1)
         /\ result' = result
    ELSE /\ sendPc' = "thrown"
         /\ retryState' = rs
         /\ timers' = tms
         /\ result' = Thrown(IF rs.lastError # NoError THEN rs.lastError
                             ELSE NetworkError("Request failed after all retries"))
         /\ sinkCalls' = calls
         /\ UNCHANGED <<aborted, fetchCalls, sentBodies>>

\* the defect of a loop that encodes the event again for every retry, with a new id
LoopHead_Reencodes(rs, opts, ev, tms, calls) ==
    IF rs.attempt < rs.maxRetries
    THEN /\ sendPc' = "fetch"
         /\ retryState' = [rs EXCEPT !.attempt = @ + 1]
         /\ timers' = tms \cup {[id |-> rs.attempt + 1, left |-> opts.timeout]}
         /\ aborted' = FALSE
         /\ fetchCalls' = fetchCalls + 1
         /\ sentBodies' = Append(sentBodies,
                IF rs.attempt = 0 THEN Text(ev)
                ELSE Text(encodeCloudEvent(Get(ev, "type"), Get(ev, "source"),
                                           Get(ev, "data"), JStr("id of a retry"),
                                           Get(ev, "time"))))
         /\ sinkCalls' = calls + Notices(opts, 1)
         /\ result' = result
    ELSE /\ sendPc' = "thrown"
         /\ retryState' = rs
         /\ timers' = tms
         /\ result' = Thrown(IF rs.lastError # NoError THEN rs.lastError
                             ELSE NetworkError("Request failed after all retries"))
         /\ sinkCalls' = calls
         /\ UNCHANGED <<aborted, fetchCalls, sentBodies>>

\* the while loop from its test to `await fetch`, or the throw below the loop
LoopHead(rs, opts, ev, tms, calls) ==
    IF rs.attempt < rs.maxRetries
    THEN /\ sendPc' = "fetch"
         /\ retryState' = [rs EXCEPT !.attempt = @ + 1]
         /\ timers' = tms \cup {[id |-> rs.attempt + 1, left |-> opts.timeout]}
         /\ aborted' = FALSE
         /\ fetchCalls' = fetchCalls + 1
         /\ sentBodies' = Append(sentBodies, Text(ev))
         /\ sinkCalls' = calls + Notices(opts, 1)
         /\ result' = result
    ELSE /\ sendPc' = "thrown"
         /\ retryState' = rs
         /\ timers' = tms
         /\ result' = Thrown(IF rs.lastError # NoError THEN rs.lastError
                             ELSE NetworkError("Request failed after all retries"))
         /\ sinkCalls' = calls
         /\ UNCHANGED <<aborted, fetchCalls, sentBodies>>

\* the outer catch: remember the error, give up or schedule the retry; resp is the
\* response the attempt received, if any
Caught(error, how, resp, text, calls) ==
    LET rs == [retryState EXCEPT !.lastError = error] IN
    /\ retryState' = rs
    /\ timers' = cleanup(timers, retryState.attempt)
    /\ attemptLog' = Append(attemptLog, [how |-> how, response |-> resp, body |-> text])
    /\ IF ~isRetryableError(error) \/ rs.attempt >= rs.maxRetries
       THEN /\ sendPc' = "thrown"
            /\ result' = Thrown(error)
            /\ sinkCalls' = calls + Notices(options, 1)
            /\ UNCHANGED <<sleepLeft, backoffs, slept>>
       ELSE /\ sendPc' = "sleep"
            /\ sleepLeft' = calculateBackoff(rs.attempt)
            /\ backoffs' = Append(backoffs, calculateBackoff(rs.attempt))
            /\ slept' = 0
            /\ result' = result
            /\ sinkCalls' = calls + Notices(options, 2)

OnError(error, how, text, calls) ==
    Caught(error, how, IF sendPc = "text" THEN response ELSE NoResponse, text, calls)

\* the two notices before the loop are outside every try: what the sink throws there
\* rejects the call
PostCloudEvent(ev, timeoutOpt, retriesOpt, logger) ==
    LET opts == [timeout |-> ValueOr(timeoutOpt, DefaultTimeout),
                 retries |-> ValueOr(retriesOpt, DefaultRetries),
                 logger |-> logger]
    IN
    /\ sendPc = "idle"
    /\ options' = opts
    /\ cloudEvent' = ev
    /\ IF logger = "throws"
       THEN /\ sendPc' = "thrown"
            /\ result' = Thrown(SinkError)
            /\ sinkCalls' = 1
            /\ UNCHANGED <<retryState, timers, aborted, fetchCalls, sentBodies>>
       ELSE LoopHead([attempt |-> 0, maxRetries |-> opts.retries, lastError |-> NoError],
                     opts, ev, timers, Notices(opts, 2))
    /\ UNCHANGED otherThanSend
    /\ UNCHANGED <<response, sleepLeft, backoffs, slept, attemptLog>>

\* fetch resolves with a Response; the notice of its status is inside the try: what
\* the sink throws there is caught and classified as a failure of the network
FetchResolves(status, statusText) ==
    /\ sendPc = "fetch"
    /\ ~aborted
    /\ response' = [status |-> status, statusText |-> statusText]
    /\ IF options.logger = "throws on status"
       THEN Caught(NetworkError("Error"), "sink failed",
                   [status |-> status, statusText |-> statusText], NoText, sinkCalls + 1)
       ELSE /\ timers' = cleanup(timers, retryState.attempt)
            /\ sendPc' = "text"
            /\ sinkCalls' = sinkCalls + Notices(options, 1)
            /\ UNCHANGED <<retryState, sleepLeft, backoffs, slept, result, attemptLog>>
    /\ UNCHANGED otherThanSend
    /\ UNCHANGED <<options, cloudEvent, aborted, fetchCalls, sentBodies>>

\* fetch rejects with a TypeError: no connection, DNS failure
FetchRejects ==
    /\ sendPc = "fetch"
    /\ ~aborted
    /\ OnError(NetworkError("TypeError"), "fetch failed", NoText, sinkCalls)
    /\ UNCHANGED otherThanSend
    /\ UNCHANGED <<options, cloudEvent, aborted, response, fetchCalls, sentBodies>>

\* the defect of a timer that starts the next attempt itself, the request it gave up
\* still pending
TimeoutFires_StartsNext ==
    \E tm \in timers :
        /\ tm.left = 0
        /\ IF tm.id = retryState.attempt /\ sendPc = "fetch"
                /\ retryState.attempt < retryState.maxRetries
           THEN /\ LoopHead(retryState, options, cloudEvent, timers \ {tm}, sinkCalls)
                /\ UNCHANGED <<options, cloudEvent, response, sleepLeft, backoffs, slept,
                               attemptLog>>
           ELSE /\ timers' = timers \ {tm}
                /\ aborted' = IF tm.id = retryState.attempt /\ sendPc = "fetch"
                                THEN TRUE ELSE aborted
                /\ sinkCalls' = sinkCalls + Notices(options, 1)
                /\ UNCHANGED <<sendPc, options, cloudEvent, retryState, response, sleepLeft,
                               backoffs, slept, result, fetchCalls, sentBodies, attemptLog>>
        /\ UNCHANGED otherThanSend

\* the timeout timer of an attempt fires: controller.abort()
TimeoutFires ==
    \E tm \in timers :
        /\ tm.left = 0
        /\ timers' = timers \ {tm}
        /\ aborted' = IF tm.id = retryState.attempt /\ sendPc = "fetch" THEN TRUE ELSE aborted
        /\ sinkCalls' = sinkCalls + Notices(options, 1)
        /\ UNCHANGED otherThanSend
        /\ UNCHANGED <<sendPc, options, cloudEvent, retryState, response, sleepLeft,
                       backoffs, slept, result, fetchCalls, sentBodies, attemptLog>>

\* fetch rejects with the AbortError of the aborted signal
FetchAborted ==
    /\ sendPc = "fetch"
    /\ aborted
    /\ OnError(TimeoutError(options.timeout), "aborted", NoText, sinkCalls)
    /\ UNCHANGED otherThanSend
    /\ UNCHANGED <<options, cloudEvent, aborted, response, fetchCalls, sentBodies>>

\* response.text() resolves: the rest of the try block
TextResolves(text) ==
    /\ sendPc = "text"
    /\ IF ~Ok(response.status)
       THEN OnError(HTTPError(response.status, response.statusText, text), "http", text,
                    sinkCalls + Notices(options, 1))
       ELSE LET rawPayload == JSONParse(text)
                decoded == decodeCloudEvent(rawPayload)
            IN
            IF rawPayload = [t |-> "SyntaxError"]
            THEN OnError(ParseError("Failed to parse JSON response"), "parse", text,
                         sinkCalls + Notices(options, 1))
            ELSE IF decoded = NoDecode
            THEN OnError(ParseError("Failed to decode CloudEvent response"), "decode", text,
                         sinkCalls + Notices(options, 1))
            ELSE IF decoded.responseAttributes # JNull
                    /\ decoded.responseAttributes.statusCode # JStr("0")
            THEN OnError(QBError(decoded.responseAttributes.statusMessage,
                                 decoded.responseAttributes.statusCode,
                                 decoded.responseAttributes.statusSeverity), "qb", text,
                         sinkCalls + Notices(options, 2))
            ELSE /\ sendPc' = "returned"
                 /\ result' = Returned(decoded)
                 /\ attemptLog' = Append(attemptLog,
                            [how |-> "ok", response |-> response, body |-> text])
                 /\ sinkCalls' = sinkCalls
                        + Notices(options, IF decoded.responseAttributes # JNull THEN 3 ELSE 2)
                 /\ UNCHANGED <<retryState, timers, sleepLeft, backoffs, slept>>
    /\ UNCHANGED otherThanSend
    /\ UNCHANGED <<options, cloudEvent, aborted, response, fetchCalls, sentBodies>>

\* response.text() rejects: the connection broke while the body was read
TextRejects ==
    /\ sendPc = "text"
    /\ OnError(NetworkError("TypeError"), "body failed", NoText, sinkCalls)
    /\ UNCHANGED otherThanSend
    /\ UNCHANGED <<options, cloudEvent, aborted, response, fetchCalls, sentBodies>>

\* the sleep ends: the loop goes round
SleepDone ==
    /\ sendPc = "sleep"
    /\ sleepLeft = 0
    /\ LoopHead(retryState, options, cloudEvent, timers, sinkCalls)
    /\ UNCHANGED otherThanSend
    /\ UNCHANGED <<options, cloudEvent, response, sleepLeft, backoffs, slept, attemptLog>>

\* BackoffBaseMs of time passes; every deadline of the model is a multiple of it,
\* and a timer that is due fires before more time passes
Tick ==
    /\ timers # {} \/ sendPc = "sleep"
    /\ \A tm \in timers : tm.left > 0
    /\ sendPc = "sleep" => sleepLeft > 0
    /\ timers' = {[tm EXCEPT !.left = @ - BackoffBaseMs] : tm \in timers}
    /\ sleepLeft' = IF sendPc = "sleep" THEN sleepLeft - BackoffBaseMs ELSE sleepLeft
    /\ slept' = IF sendPc = "sleep" THEN slept + BackoffBaseMs ELSE slept
    /\ UNCHANGED otherThanSend
    /\ UNCHANGED <<sendPc, options, cloudEvent, retryState, aborted, response, backoffs,
                   result, fetchCalls, sentBodies, attemptLog, sinkCalls>>

\* sendCloudEventToBackend: encode, then post
SendCloudEventToBackend(type, source, data, id, now, timeoutOpt, retriesOpt, logger) ==
    PostCloudEvent(encodeCloudEvent(type, source, data, id, now),
                   timeoutOpt, retriesOpt, logger)

(***************************************************************************)
(* The documents the backend answers with.                                 *)
(***************************************************************************)
MetaFields ==
    << <<"specversion", JStr("1.0")>>, <<"id", JStr("response-event-id")>>,
       <<"source", JStr("qb-backend")>>, <<"type", JStr("com.quickbooks.bill.add.response")>>,
       <<"time", JStr("2025-11-09T12:00:01.000Z")>> >>

\* an envelope with all the required fields and this data
Envelope(data) == JObj(MetaFields \o << <<"data", data>> >>)
\* an envelope that lacks one required field
EnvelopeWithout(field) ==
    JObj(SelectSeq(MetaFields, LAMBDA p : p[1] # field) \o << <<"data", JObj(<< >>)>> >>)
\* data.QBXML.QBXMLMsgsRs = msgs
Qbxml(msgs) == JObj(<< <<"QBXML", JObj(<< <<"QBXMLMsgsRs", msgs>> >>)>> >>)
\* a response child with its status attributes and its other members
Rs(statusCode, severity, members) ==
    JObj(<< <<"@statusCode", JStr(statusCode)>>, <<"@statusSeverity", JStr(severity)>>,
            <<"@statusMessage", JStr("msg " \o statusCode)>> >> \o members)
BillRet(txnId) == JObj(<< <<"TxnID", JStr(txnId)>>, <<"TxnNumber", JStr("1001")>>,
                          <<"VendorRef", JObj(<< <<"FullName", JStr("Acme")>> >>)>> >>)

OkWithRet == Envelope(Qbxml(JObj(<< <<"BillAddRs", Rs("0", "Info", << <<"BillRet", BillRet("12345")>> >>)>> >>)))
OkWithoutRet == Envelope(Qbxml(JObj(<< <<"BillAddRs", Rs("0", "Info", << >>)>> >>)))
OkWithRetList == Envelope(Qbxml(JObj(<< <<"BillQueryRs",
                    Rs("0", "Info", << <<"BillRet", JArr(<<BillRet("1"), BillRet("2")>>)>> >>)>> >>)))
OkWithEmptyRetList == Envelope(Qbxml(JObj(<< <<"BillQueryRs",
                    Rs("0", "Info", << <<"BillRet", JArr(<< >>)>> >>)>> >>)))
QbFailure == Envelope(Qbxml(JObj(<< <<"@requestID", JStr("7")>>,
                    <<"BillAddRs", Rs("3100", "Error", << >>)>> >>)))
QbFailureWithRet == Envelope(Qbxml(JObj(<< <<"BillAddRs",
                    Rs("3100", "Error", << <<"BillRet", BillRet("9")>> >>)>> >>)))
NoStatusCode == Envelope(Qbxml(JObj(<< <<"BillAddRs", JObj(<< <<"BillRet", BillRet("5")>> >>)>> >>)))
\* the first response child is a text, the second a failed response with a record
TextThenFailure == Envelope(Qbxml(JObj(<< <<"HostQueryRs", JStr("n/a")>>,
                    <<"BillAddRs", Rs("3100", "Error", << <<"BillRet", BillRet("9")>> >>)>> >>)))
NoResponseChild == Envelope(Qbxml(JObj(<< <<"@requestID", JStr("7")>> >>)))
NoMsgsRs == Envelope(JObj(<< <<"QBXML", JObj(<< >>)>> >>))
NoQbxml == Envelope(JObj(<< <<"other", JStr("x")>> >>))
TextData == Envelope(JStr("plain"))
NoData == JObj(MetaFields)

Decodable == {OkWithRet, OkWithoutRet, OkWithRetList, OkWithEmptyRetList, QbFailure,
              QbFailureWithRet, NoStatusCode, TextThenFailure, NoResponseChild, NoMsgsRs,
              NoQbxml, TextData, NoData}
Undecodable == {JNull, JStr("OK"), JArr(<< >>)}
                 \cup {EnvelopeWithout(requiredFields[i]) : i \in DOMAIN requiredFields}

\* the texts the body of a response may be: a response without content has an empty
\* body, a failure carries a page or a document, a success any of these
BodiesOf(status) ==
    IF status = 204 THEN {EmptyText}
    ELSE IF status \notin 200..299 THEN {BadText, Text(QbFailure)}
    ELSE {BadText, Text(JNull), Text(EnvelopeWithout("time")), Text(OkWithRet),
          Text(OkWithoutRet), Text(OkWithRetList), Text(OkWithEmptyRetList), Text(QbFailure),
          Text(NoStatusCode), Text(TextThenFailure), Text(NoData)}

\* the transport statuses the backend answers with
StatusTexts == {<<200, "OK">>, <<204, "No Content">>, <<404, "Not Found">>,
                <<500, "Internal Server Error">>}

(***************************************************************************)
(* The calls the model makes.                                              *)
(***************************************************************************)
TimeoutOpts == {<< >>, <<2 * BackoffBaseMs>>}
RetriesOpts == {<< >>} \cup {<<n>> : n \in -1..MaxRetries}
EventIds == {JStr("550e8400-e29b-41d4-a716-446655440000"),
             JStr("6ba7b810-9dad-41d1-80b4-00c04fd430c8")}
Requests == {JObj(<< <<"QBXML", JObj(<< <<"QBXMLMsgsRq", JObj(<< >>)>> >>)>> >>)}
GivenEvents == {encodeCloudEvent(JStr("com.quickbooks.bill.add"), JStr("qb-chrome-extension"),
                                 JNull, JStr("test-event-id"), JStr("2025-11-09T12:00:00.000Z"))}

(***************************************************************************)
(* Two calls of postCloudEvent at a time: each has its own options and    *)
(* retryState and, per attempt, its own controller and timer; they share   *)
(* the clock.                                                              *)
(***************************************************************************)
CallIds == {1, 2}

NotStarted ==
    [pc |-> "idle", timeout |-> DefaultTimeout,
     retryState |-> [attempt |-> 0, maxRetries |-> DefaultRetries, lastError |-> NoError],
     timers |-> {}, aborted |-> FALSE, abortedBy |-> {}, response |-> 0, sleepLeft |-> 0,
     slept |-> 0, backoffs |-> << >>, fetchCalls |-> 0, log |-> << >>, result |-> "pending"]

\* the defect of one controller for all calls: its abort reaches every pending fetch
createTimeoutController_Shared(i) == CallIds
\* the calls whose fetch listens to the signal of the controller call i creates
createTimeoutController(i) == {i}

\* the while loop of call c from its test to `await fetch`, or the throw below the loop
loop(c) ==
    IF c.retryState.attempt < c.retryState.maxRetries
    THEN [c EXCEPT !.pc = "fetch",
                   !.retryState.attempt = @ + 1,
                   !.timers = @ \cup {[id |-> c.retryState.attempt + 1, left |-> c.timeout]},
                   !.aborted = FALSE,
                   !.fetchCalls = @ + 1]
    ELSE [c EXCEPT !.pc = "thrown",
                   !.result = IF c.retryState.lastError # NoError
                              THEN c.retryState.lastError.name ELSE "NetworkError"]

\* the catch blocks of call c
caught(c, error, how) ==
    LET d == [c EXCEPT !.retryState.lastError = error,
                       !.timers = cleanup(@, c.retryState.attempt),
                       !.log = Append(@, how)]
    IN IF ~isRetryableError(error) \/ d.retryState.attempt >= d.retryState.maxRetries
       THEN [d EXCEPT !.pc = "thrown", !.result = error.name]
       ELSE [d EXCEPT !.pc = "sleep",
                      !.sleepLeft = calculateBackoff(d.retryState.attempt),
                      !.slept = 0,
                      !.backoffs = Append(@, calculateBackoff(d.retryState.attempt))]

\* the rest of the try block of call c once the body is read
bodyRead(c, text) ==
    LET rawPayload == JSONParse(text)
        decoded == decodeCloudEvent(rawPayload)
    IN IF ~Ok(c.response)
       THEN caught(c, HTTPError(c.response, "", text), "http")
       ELSE IF rawPayload = [t |-> "SyntaxError"]
       THEN caught(c, ParseError("Failed to parse JSON response"), "parse")
       ELSE IF decoded = NoDecode
       THEN caught(c, ParseError("Failed to decode CloudEvent response"), "decode")
       ELSE IF decoded.responseAttributes # JNull
               /\ decoded.responseAttributes.statusCode # JStr("0")
       THEN caught(c, QBError(decoded.responseAttributes.statusMessage,
                              decoded.responseAttributes.statusCode,
                              decoded.responseAttributes.statusSeverity), "qb")
       ELSE [c EXCEPT !.pc = "returned", !.result = "returned", !.log = Append(@, "ok")]

PairCall(i, timeout, retries) ==
    /\ sends[i].pc = "idle"
    /\ sends' = [sends EXCEPT ![i] =
                    loop([NotStarted EXCEPT !.timeout = timeout,
                                            !.retryState.maxRetries = retries])]
    /\ UNCHANGED otherThanPair

PairFetchResolves(i, status) ==
    /\ sends[i].pc = "fetch" /\ ~sends[i].aborted
    /\ sends' = [sends EXCEPT ![i].pc = "text",
                              ![i].timers = cleanup(@, sends[i].retryState.attempt),
                              ![i].response = status]
    /\ UNCHANGED otherThanPair

PairFetchRejects(i) ==
    /\ sends[i].pc = "fetch" /\ ~sends[i].aborted
    /\ sends' = [sends EXCEPT ![i] = caught(@, NetworkError("TypeError"), "fetch failed")]
    /\ UNCHANGED otherThanPair

\* a timer of call i fires: controller.abort()
PairTimeoutFires(i) ==
    \E tm \in sends[i].timers :
        /\ tm.left = 0
        /\ sends' = [j \in CallIds |->
                LET c == IF j = i THEN [sends[j] EXCEPT !.timers = @ \ {tm}] ELSE sends[j]
                    reached == /\ j \in createTimeoutController(i)
                               /\ c.pc = "fetch"
                               /\ j = i => tm.id = c.retryState.attempt
                IN IF reached THEN [c EXCEPT !.aborted = TRUE, !.abortedBy = @ \cup {i}]
                   ELSE c]
        /\ UNCHANGED otherThanPair

PairFetchAborted(i) ==
    /\ sends[i].pc = "fetch" /\ sends[i].aborted
    /\ sends' = [sends EXCEPT ![i] = caught(@, TimeoutError(sends[i].timeout), "aborted")]
    /\ UNCHANGED otherThanPair

PairTextResolves(i, text) ==
    /\ sends[i].pc = "text"
    /\ sends' = [sends EXCEPT ![i] = bodyRead(@, text)]
    /\ UNCHANGED otherThanPair

PairTextRejects(i) ==
    /\ sends[i].pc = "text"
    /\ sends' = [sends EXCEPT ![i] = caught(@, NetworkError("TypeError"), "body failed")]
    /\ UNCHANGED otherThanPair

PairSleepDone(i) ==
    /\ sends[i].pc = "sleep" /\ sends[i].sleepLeft = 0
    /\ sends' = [sends EXCEPT ![i] = loop(@)]
    /\ UNCHANGED otherThanPair

\* BackoffBaseMs of time passes for both calls; what is due happens first
PairTick ==
    /\ \E i \in CallIds : sends[i].timers # {} \/ sends[i].pc = "sleep"
    /\ \A i \in CallIds :
            /\ \A tm \in sends[i].timers : tm.left > 0
            /\ sends[i].pc = "sleep" => sends[i].sleepLeft > 0
    /\ sends' = [i \in CallIds |->
            LET c == [sends[i] EXCEPT
                        !.timers = {[tm EXCEPT !.left = @ - BackoffBaseMs] : tm \in @}]
            IN IF c.pc = "sleep"
               THEN [c EXCEPT !.sleepLeft = @ - BackoffBaseMs, !.slept = @ + BackoffBaseMs]
               ELSE c]
    /\ UNCHANGED otherThanPair

\* the options, statuses and bodies of the two calls
PairTimeouts == {BackoffBaseMs, 2 * BackoffBaseMs}
PairRetries == {1, 2}
PairStatuses == {200, 500}
PairBodies == {BadText, Text(OkWithRet), Text(QbFailure)}

NextPair ==
    \E i \in CallIds :
        \/ \E timeout \in PairTimeouts, retries \in PairRetries : PairCall(i, timeout, retries)
        \/ \E status \in PairStatuses : PairFetchResolves(i, status)
        \/ PairFetchRejects(i)
        \/ PairTimeoutFires(i)
        \/ PairFetchAborted(i)
        \/ \E text \in PairBodies : PairTextResolves(i, text)
        \/ PairTextRejects(i)
        \/ PairSleepDone(i)
        \/ PairTick

InitSend ==
    /\ sendPc = "idle"
    /\ options = [timeout |-> DefaultTimeout, retries |-> DefaultRetries, logger |-> NoSink]
    /\ cloudEvent = JNull
    /\ retryState = [attempt |-> 0, maxRetries |-> DefaultRetries, lastError |-> NoError]
    /\ timers = {}
    /\ aborted = FALSE
    /\ response = NoResponse
    /\ sleepLeft = 0
    /\ backoffs = << >>
    /\ slept = 0
    /\ result = Pending
    /\ fetchCalls = 0
    /\ sentBodies = << >>
    /\ attemptLog = << >>
    /\ sinkCalls = 0
    /\ sends = [i \in CallIds |-> NotStarted]

CallPostWith(sinks) ==
    \E ev \in GivenEvents, timeoutOpt \in TimeoutOpts, retriesOpt \in RetriesOpts,
       logger \in sinks :
        PostCloudEvent(ev, timeoutOpt, retriesOpt, logger)

CallSendEventWith(sinks) ==
    \E data \in Requests, id \in EventIds, timeoutOpt \in TimeoutOpts,
       retriesOpt \in RetriesOpts, logger \in sinks :
        SendCloudEventToBackend(JStr("com.quickbooks.bill.add"), JStr("qb-chrome-extension"),
                                data, id, JStr("2025-11-09T12:00:00.000Z"),
                                timeoutOpt, retriesOpt, logger)

\* calls without a sink or with one that returns
CallPost == CallPostWith(QuietSinks)
CallSendEvent == CallSendEventWith(QuietSinks)
\* calls with any sink
CallPostAnySink == CallPostWith(Sinks)
CallSendEventAnySink == CallSendEventWith(Sinks)

Respond == \E st \in StatusTexts : FetchResolves(st[1], st[2])

Body == \E text \in BodiesOf(response.status) : TextResolves(text)

NextSend ==
    \/ CallPost
    \/ CallSendEvent
    \/ Respond
    \/ FetchRejects
    \/ TimeoutFires
    \/ FetchAborted
    \/ Body
    \/ TextRejects
    \/ SleepDone
    \/ Tick

\* the request client with sinks that may throw
NextSink ==
    \/ CallPostAnySink
    \/ CallSendEventAnySink
    \/ Respond
    \/ FetchRejects
    \/ TimeoutFires
    \/ FetchAborted
    \/ Body
    \/ TextRejects
    \/ SleepDone
    \/ Tick

(***************************************************************************)
(* persistentStore.                                                        *)
(***************************************************************************)
\* the cells of the model: two calls of persistentStore with the same key and the same
\* storage area, in one execution context or in two (the panel's and the worker's)
Cells == {"panel", "worker"}
CellKey == "vendors"
CellArea == "local"

\* values a cell holds: two texts and a record; no record in storage is Absent
Values == {"list", "grid", "{a}"}
IsObject(v) == v = "{a}"
Absent == "<absent>"
InitialValue == "list"

\* svelte's safe_not_equal: what makes store.set tell the subscribers
safe_not_equal(a, b) == a # b \/ IsObject(a)

NoCell == [created |-> FALSE, synced |-> FALSE, value |-> InitialValue,
           isInitializing |-> FALSE, hydration |-> "none", readResult |-> Absent]

\* the defect of a subscriber that writes whatever the flag says
SubscriberWrites_Always(isInitializing) == TRUE
\* the subscriber persistentStore registers: does it call storage.set?
SubscriberWrites(isInitializing) == ~isInitializing

\* store.set(v) on cell c while the flag of the cell has this value: the cell's new
\* value and whether the subscriber called storage.set
StoreSet(c, v, isInitializing) ==
    LET told == safe_not_equal(cells[c].value, v) IN
    [value |-> v,
     wrote |-> told /\ cells[c].synced /\ SubscriberWrites(isInitializing)]

\* who writes the record besides the cells: another execution context
Elsewhere == "elsewhere"

\* the notifications a change of the record sends: one to every listening cell; by is
\* the writer, which the model remembers and no listener is given
Notify(evs, old, new, by) ==
    [c \in Cells |->
        IF cells[c].synced /\ old # new
        THEN Append(evs[c], [area |-> CellArea, key |-> CellKey, newValue |-> new,
                             by |-> by])
        ELSE evs[c]]

\* persistentStore(key, initialValue, storageType)
Create(c) ==
    /\ ~cells[c].created
    /\ cells' = [cells EXCEPT ![c] =
            IF chromeAvailable
            THEN [created |-> TRUE, synced |-> TRUE, value |-> InitialValue,
                  isInitializing |-> TRUE, hydration |-> "reading", readResult |-> Absent]
            ELSE [NoCell EXCEPT !.created = TRUE]]
    /\ lastOp' = [op |-> "create", cell |-> c, value |-> InitialValue, wrote |-> FALSE]
    /\ UNCHANGED <<chromeAvailable, storageRec, writes, events, mutations, externals>>
    /\ UNCHANGED otherThanStore

\* storage.get([key]) is served: it reads the record as it is now
HydrateRead(c) ==
    /\ cells[c].hydration = "reading"
    /\ cells' = [cells EXCEPT ![c].hydration = "read", ![c].readResult = storageRec]
    /\ lastOp' = [op |-> "read", cell |-> c, value |-> storageRec, wrote |-> FALSE]
    /\ UNCHANGED <<chromeAvailable, storageRec, writes, events, mutations, externals>>
    /\ UNCHANGED otherThanStore

\* a then-callback that drops the record read once the owner has mutated the cell
HydrateThen_KeepLocal(c) ==
    LET cell == cells[c]
        set == IF cell.readResult # Absent /\ mutations = 0
               THEN StoreSet(c, cell.readResult, cell.isInitializing)
               ELSE [value |-> cell.value, wrote |-> FALSE]
    IN
    /\ cell.hydration = "read"
    /\ cells' = [cells EXCEPT ![c].value = set.value, ![c].isInitializing = FALSE,
                              ![c].hydration = "done"]
    /\ writes' = IF set.wrote THEN Append(writes, [cell |-> c, value |-> set.value])
                 ELSE writes
    /\ lastOp' = [op |-> "hydrate", cell |-> c, value |-> cell.readResult, wrote |-> set.wrote]
    /\ UNCHANGED <<chromeAvailable, storageRec, events, mutations, externals>>
    /\ UNCHANGED otherThanStore

\* the then-callback of storage.get
HydrateThen(c) ==
    LET cell == cells[c]
        set == IF cell.readResult # Absent
               THEN StoreSet(c, cell.readResult, cell.isInitializing)
               ELSE [value |-> cell.value, wrote |-> FALSE]
    IN
    /\ cell.hydration = "read"
    /\ cells' = [cells EXCEPT ![c].value = set.value, ![c].isInitializing = FALSE,
                              ![c].hydration = "done"]
    /\ writes' = IF set.wrote THEN Append(writes, [cell |-> c, value |-> set.value])
                 ELSE writes
    /\ lastOp' = [op |-> "hydrate", cell |-> c, value |-> cell.readResult, wrote |-> set.wrote]
    /\ UNCHANGED <<chromeAvailable, storageRec, events, mutations, externals>>
    /\ UNCHANGED otherThanStore

\* storage.get rejects: there is no catch, the then-callback never runs
HydrateFails(c) ==
    /\ cells[c].hydration = "reading"
    /\ cells' = [cells EXCEPT ![c].hydration = "failed"]
    /\ lastOp' = [op |-> "read failed", cell |-> c, value |-> Absent, wrote |-> FALSE]
    /\ UNCHANGED <<chromeAvailable, storageRec, writes, events, mutations, externals>>
    /\ UNCHANGED otherThanStore

\* store.set(v) by an owner of the cell
Set(c, v) ==
    LET set == StoreSet(c, v, cells[c].isInitializing) IN
    /\ cells[c].created
    /\ mutations < MaxMutations
    /\ cells' = [cells EXCEPT ![c].value = set.value]
    /\ writes' = IF set.wrote THEN Append(writes, [cell |-> c, value |-> set.value])
                 ELSE writes
    /\ mutations' = mutations + 1
    /\ lastOp' = [op |-> "set", cell |-> c, value |-> v, wrote |-> set.wrote]
    /\ UNCHANGED <<chromeAvailable, storageRec, events, externals>>
    /\ UNCHANGED otherThanStore

\* the functions the model passes to update
Toggle(v) == IF v = "list" THEN "grid" ELSE IF v = "grid" THEN "list" ELSE v
Grow(v) == "{a}"

\* store.update(fn): set(fn(value))
Update(c, fn) ==
    LET v == IF fn = "toggle" THEN Toggle(cells[c].value) ELSE Grow(cells[c].value)
        set == StoreSet(c, v, cells[c].isInitializing)
    IN
    /\ cells[c].created
    /\ mutations < MaxMutations
    /\ cells' = [cells EXCEPT ![c].value = set.value]
    /\ writes' = IF set.wrote THEN Append(writes, [cell |-> c, value |-> set.value])
                 ELSE writes
    /\ mutations' = mutations + 1
    /\ lastOp' = [op |-> "update", cell |-> c, value |-> v, wrote |-> set.wrote]
    /\ UNCHANGED <<chromeAvailable, storageRec, events, externals>>
    /\ UNCHANGED otherThanStore

\* a listener that sets the value without raising the flag first
Listener_NoFlag(c, e) ==
    IF e.area # CellArea \/ e.key # CellKey
    THEN [value |-> cells[c].value, isInitializing |-> cells[c].isInitializing,
          wrote |-> FALSE]
    ELSE [value |-> e.newValue, isInitializing |-> FALSE,
          wrote |-> StoreSet(c, e.newValue, cells[c].isInitializing).wrote]

\* a listener that does not look at the storage area
Listener_AnyArea(c, e) ==
    IF e.key # CellKey
    THEN [value |-> cells[c].value, isInitializing |-> cells[c].isInitializing,
          wrote |-> FALSE]
    ELSE [value |-> e.newValue, isInitializing |-> FALSE,
          wrote |-> StoreSet(c, e.newValue, TRUE).wrote]

\* the chrome.storage.onChanged listener of cell c, called with (changes, areaName);
\* e is the area and, of changes, the key and its newValue
Listener(c, e) ==
    IF e.area # CellArea \/ e.key # CellKey
    THEN [value |-> cells[c].value, isInitializing |-> cells[c].isInitializing,
          wrote |-> FALSE]
    ELSE [value |-> e.newValue, isInitializing |-> FALSE,
          wrote |-> StoreSet(c, e.newValue, TRUE).wrote]

\* a notification of a change of the cells' record is delivered to cell c
DeliverChange(c) ==
    LET e == Head(events[c])
        after == Listener(c, e)
    IN
    /\ events[c] # << >>
    /\ events' = [events EXCEPT ![c] = Tail(@)]
    /\ cells' = [cells EXCEPT ![c].value = after.value,
                              ![c].isInitializing = after.isInitializing]
    /\ writes' = IF after.wrote THEN Append(writes, [cell |-> c, value |-> after.value])
                 ELSE writes
    /\ lastOp' = [op |-> "changed", cell |-> c, value |-> e.newValue, wrote |-> after.wrote]
    /\ UNCHANGED <<chromeAvailable, storageRec, mutations, externals>>
    /\ UNCHANGED otherThanStore

\* a notification of a change of another key, or of the other storage area
ForeignChange(c, area, key, v) ==
    LET after == Listener(c, [area |-> area, key |-> key, newValue |-> v,
                                  by |-> Elsewhere]) IN
    /\ cells[c].synced
    /\ area # CellArea \/ key # CellKey
    /\ cells' = [cells EXCEPT ![c].value = after.value,
                              ![c].isInitializing = after.isInitializing]
    /\ lastOp' = [op |-> "foreign", cell |-> c, value |-> v, wrote |-> after.wrote]
    /\ UNCHANGED <<chromeAvailable, storageRec, writes, events, mutations, externals>>
    /\ UNCHANGED otherThanStore

\* the oldest storage.set in flight lands: the record changes, the listeners are told
WriteLands ==
    /\ writes # << >>
    /\ storageRec' = Head(writes).value
    /\ events' = Notify(events, storageRec, Head(writes).value, Head(writes).cell)
    /\ writes' = Tail(writes)
    /\ lastOp' = [op |-> "landed", cell |-> Head(writes).cell, value |-> Head(writes).value,
                  wrote |-> FALSE]
    /\ UNCHANGED <<chromeAvailable, cells, mutations, externals>>
    /\ UNCHANGED otherThanStore

\* a catch that issues the rejected storage.set again
WriteFails_Retry ==
    /\ writes # << >>
    /\ writes' = Append(Tail(writes), Head(writes))
    /\ lastOp' = [op |-> "rejected", cell |-> Head(writes).cell, value |-> Head(writes).value,
                  wrote |-> TRUE]
    /\ UNCHANGED <<chromeAvailable, cells, storageRec, events, mutations, externals>>
    /\ UNCHANGED otherThanStore

\* the oldest storage.set in flight is rejected: the catch logs it
WriteFails ==
    /\ writes # << >>
    /\ writes' = Tail(writes)
    /\ lastOp' = [op |-> "rejected", cell |-> Head(writes).cell, value |-> Head(writes).value,
                  wrote |-> FALSE]
    /\ UNCHANGED <<chromeAvailable, cells, storageRec, events, mutations, externals>>
    /\ UNCHANGED otherThanStore

\* another execution context writes the record
ExternalWrite(v) ==
    /\ chromeAvailable
    /\ externals < MaxExternal
    /\ storageRec' = v
    /\ events' = Notify(events, storageRec, v, Elsewhere)
    /\ externals' = externals + 1
    /\ lastOp' = [op |-> "external", cell |-> "", value |-> v, wrote |-> FALSE]
    /\ UNCHANGED <<chromeAvailable, cells, writes, mutations>>
    /\ UNCHANGED otherThanStore

\* no cell yet; the host has chrome.storage or not, the record exists or not
InitStore(hosts, records) ==
    /\ chromeAvailable \in hosts
    /\ storageRec \in records
    /\ cells = [c \in Cells |-> NoCell]
    /\ writes = << >>
    /\ events = [c \in Cells |-> << >>]
    /\ mutations = 0
    /\ externals = 0
    /\ lastOp = [op |-> "none", cell |-> "", value |-> Absent, wrote |-> FALSE]

\* one cell, the panel's, and the other contexts as writers of the record
NextStore ==
    \/ Create("panel")
    \/ HydrateRead("panel")
    \/ HydrateThen("panel")
    \/ HydrateFails("panel")
    \/ \E v \in Values : Set("panel", v)
    \/ \E fn \in {"toggle", "grow"} : Update("panel", fn)
    \/ DeliverChange("panel")
    \/ \E ak \in {<<"sync", CellKey>>, <<CellArea, "bill-cache">>}, v \in {"grid"} :
            ForeignChange("panel", ak[1], ak[2], v)
    \/ WriteLands
    \/ WriteFails
    \/ \E v \in Values : ExternalWrite(v)

\* two calls of persistentStore for the same key and area; every storage.get and
\* storage.set succeeds and nothing else writes the record
NextCells ==
    \/ \E c \in Cells : Create(c)
    \/ \E c \in Cells : HydrateRead(c)
    \/ \E c \in Cells : HydrateThen(c)
    \/ \E c \in Cells, v \in Values : Set(c, v)
    \/ \E c \in Cells : DeliverChange(c)
    \/ WriteLands

(***************************************************************************)
(* Quota monitor.                                                          *)
(***************************************************************************)
QUOTA_LIMITS_local == 5242880
THRESHOLDS_warning == 90
THRESHOLDS_critical == 95
minBillsToKeep == 10
DefaultTargetPercentage == 70
FallbackBytesPerBill == 500

Max(a, b) == IF a >= b THEN a ELSE b
Min(a, b) == IF a <= b THEN a ELSE b
\* Math.ceil(a / b) for a >= 0 and b > 0
CeilDiv(a, b) == (a + b - 1) \div b

\* (bytesInUse / quota) * 100, kept as a fraction
Percent(b, quota) == [num |-> b * 100, den |-> quota]
\* percentUsed >= k, percentUsed <= k
PercentAtLeast(p, k) == p.num >= k * p.den
PercentAtMost(p, k) == p.num <= k * p.den

\* the status checkStorageQuota gives a percentage
statusFor(percentUsed) ==
    IF PercentAtLeast(percentUsed, THRESHOLDS_critical) THEN "critical"
    ELSE IF PercentAtLeast(percentUsed, THRESHOLDS_warning) THEN "warning"
    ELSE "ok"

defaultQuota ==
    [bytesInUse |-> 0, quota |-> QUOTA_LIMITS_local,
     percentUsed |-> Percent(0, QUOTA_LIMITS_local), status |-> "ok"]

quotaStatus(b) ==
    [bytesInUse |-> b, quota |-> QUOTA_LIMITS_local,
     percentUsed |-> Percent(b, QUOTA_LIMITS_local),
     status |-> statusFor(Percent(b, QUOTA_LIMITS_local))]

\* what checkStorageQuota resolves with when getBytesInUse resolves now
checkStorageQuota == IF chromeAvailable THEN quotaStatus(bytesInUse) ELSE defaultQuota

\* the defect of leaving the bills in the order of the collection
sortedBills_Unsorted(bs) == bs

\* [...bills].sort((a, b) => a.createdAt - b.createdAt)
RECURSIVE sortedBills(_)
sortedBills(bs) ==
    IF bs = << >> THEN << >>
    ELSE LET i == CHOOSE i \in DOMAIN bs : \A j \in DOMAIN bs :
                        bs[i] < bs[j] \/ (bs[i] = bs[j] /\ i <= j)
         IN <<bs[i]>> \o sortedBills(SubSeq(bs, 1, i - 1) \o SubSeq(bs, i + 1, Len(bs)))

\* a count that forgets the bills to keep
billsToRemoveFor_NoFloor(quota, targetPercentage, n) ==
    LET bytesToFreeTimes100 == quota.bytesInUse * 100 - targetPercentage * quota.quota
        avgBytesPerBill == IF n = 0 \/ CeilDiv(quota.bytesInUse, n) = 0
                           THEN FallbackBytesPerBill
                           ELSE CeilDiv(quota.bytesInUse, n)
    IN IF n = 0 /\ quota.bytesInUse # 0 THEN 0
       ELSE Min(n, CeilDiv(bytesToFreeTimes100, 100 * avgBytesPerBill))

\* billsToRemove as one call of the subscriber computes it for n bills: bytesToFree is
\* positive here, so with no bill and bytes in use the average is Infinity and the
\* quotient 0; an average of 0 or NaN gives way to the fallback
billsToRemoveFor(quota, targetPercentage, n) ==
    LET maxBillsToRemove == Max(0, n - minBillsToKeep)
        bytesToFreeTimes100 == quota.bytesInUse * 100 - targetPercentage * quota.quota
        avgBytesPerBill == IF n = 0 \/ CeilDiv(quota.bytesInUse, n) = 0
                           THEN FallbackBytesPerBill
                           ELSE CeilDiv(quota.bytesInUse, n)
    IN IF n = 0 /\ quota.bytesInUse # 0 THEN 0
       ELSE Min(maxBillsToRemove, CeilDiv(bytesToFreeTimes100, 100 * avgBytesPerBill))

\* billCache.set(billsToKeep) runs the store's subscribers, the callback of
\* cleanupOldData among them (it is subscribed until subscribe returns); a set made
\* by a callback that runs inside that loop is queued and delivered by the same
\* loop.  The calls of the callback inside the loop, given the value first set:
\* the collection left, the values passed to resolve in order, the sets made.
RECURSIVE deliverToCallback(_, _, _)
deliverToCallback(value, quota, targetPercentage) ==
    LET sorted == sortedBills(value)
        billsToRemove == billsToRemoveFor(quota, targetPercentage, Len(sorted))
    IN IF billsToRemove > 0
       THEN LET rest == deliverToCallback(SubSeq(sorted, billsToRemove + 1, Len(sorted)),
                                          quota, targetPercentage)
            IN [bills |-> rest.bills, resolved |-> <<billsToRemove>> \o rest.resolved,
                sets |-> rest.sets + 1]
       ELSE [bills |-> value, resolved |-> <<0>>, sets |-> 0]

\* billCache.subscribe(callback)(): the first call of the callback, made by subscribe;
\* its resolve comes after its billCache.set has returned, with billsToRemove as the
\* last call inside the loop left it
subscribeCallback(value, quota, targetPercentage) ==
    LET sorted == sortedBills(value)
        billsToRemove == billsToRemoveFor(quota, targetPercentage, Len(sorted))
    IN IF billsToRemove > 0
       THEN LET rest == deliverToCallback(SubSeq(sorted, billsToRemove + 1, Len(sorted)),
                                          quota, targetPercentage)
            IN [bills |-> rest.bills,
                resolved |-> rest.resolved \o <<rest.resolved[Len(rest.resolved)]>>,
                sets |-> rest.sets + 1]
       ELSE [bills |-> value, resolved |-> <<0>>, sets |-> 0]

NoEviction == [called |-> FALSE]

\* the defect of running the subscriber whatever the usage is
cleanupOldData_NoEarlyReturn(quota, targetPercentage) ==
    LET run == subscribeCallback(bills, quota, targetPercentage)
    IN [called |-> TRUE, targetPercentage |-> targetPercentage, quota |-> quota,
        before |-> bills, after |-> run.bills,
        returned |-> IF run.sets = 0
                     THEN billsToRemoveFor(quota, targetPercentage, Len(bills))
                     ELSE run.resolved[1],
        sets |-> run.sets]

\* cleanupOldData after its await of checkStorageQuota, which gave quota: what it did
cleanupOldData(quota, targetPercentage) ==
    IF PercentAtMost(quota.percentUsed, targetPercentage)
    THEN [called |-> TRUE, targetPercentage |-> targetPercentage, quota |-> quota,
          before |-> bills, after |-> bills, returned |-> 0, sets |-> 0]
    ELSE LET run == subscribeCallback(bills, quota, targetPercentage)
         IN [called |-> TRUE, targetPercentage |-> targetPercentage, quota |-> quota,
             before |-> bills, after |-> run.bills, returned |-> run.resolved[1],
             sets |-> run.sets]

\* a call of one of the three functions, up to its first await
QuotaCall(op, targetPercentage) ==
    /\ quotaPc = "idle"
    /\ quotaCall' = [op |-> op, targetPercentage |-> targetPercentage]
    /\ quotaPc' = IF op = "cleanupOldData" THEN "evict measure" ELSE "measure"
    /\ UNCHANGED <<bytesInUse, bills, storageQuota, measured, eviction>>
    /\ UNCHANGED otherThanQuota /\ UNCHANGED chromeAvailable

\* a monitor that cleans up on a warning as well
MeasureResolves_CleanupOnWarning ==
    LET quota == checkStorageQuota IN
    /\ quotaPc = "measure"
    /\ storageQuota' = quota
    /\ measured' = Append(measured, quota)
    /\ quotaPc' = IF quotaCall.op = "monitorAndCleanup" /\ quota.status # "ok"
                  THEN "evict measure" ELSE "done"
    /\ UNCHANGED <<bytesInUse, bills, quotaCall, eviction>>
    /\ UNCHANGED otherThanQuota /\ UNCHANGED chromeAvailable

\* checkStorageQuota resolves for checkStorageQuota() or for the first await of
\* monitorAndCleanup, which goes on to cleanupOldData(70) when the status is critical
MeasureResolves ==
    LET quota == checkStorageQuota IN
    /\ quotaPc = "measure"
    /\ storageQuota' = quota
    /\ measured' = Append(measured, quota)
    /\ quotaPc' = IF quotaCall.op = "monitorAndCleanup" /\ quota.status = "critical"
                  THEN "evict measure" ELSE "done"
    /\ UNCHANGED <<bytesInUse, bills, quotaCall, eviction>>
    /\ UNCHANGED otherThanQuota /\ UNCHANGED chromeAvailable

\* checkStorageQuota resolves for cleanupOldData, which runs to its end
EvictMeasureResolves ==
    LET quota == checkStorageQuota
        did == cleanupOldData(quota, quotaCall.targetPercentage)
    IN
    /\ quotaPc = "evict measure"
    /\ storageQuota' = quota
    /\ measured' = Append(measured, quota)
    /\ bills' = did.after
    /\ eviction' = did
    /\ quotaPc' = IF quotaCall.op = "monitorAndCleanup" THEN "remeasure" ELSE "done"
    /\ UNCHANGED <<bytesInUse, quotaCall>>
    /\ UNCHANGED otherThanQuota /\ UNCHANGED chromeAvailable

\* checkStorageQuota resolves for the recheck of monitorAndCleanup
RemeasureResolves ==
    LET quota == checkStorageQuota IN
    /\ quotaPc = "remeasure"
    /\ storageQuota' = quota
    /\ measured' = Append(measured, quota)
    /\ quotaPc' = "done"
    /\ UNCHANGED <<bytesInUse, bills, quotaCall, eviction>>
    /\ UNCHANGED otherThanQuota /\ UNCHANGED chromeAvailable

\* getBytesInUse rejects: checkStorageQuota logs and rethrows, and so does its caller
GetBytesInUseRejects ==
    /\ quotaPc \in {"measure", "evict measure", "remeasure"}
    /\ chromeAvailable
    /\ quotaPc' = "failed"
    /\ UNCHANGED <<bytesInUse, bills, storageQuota, quotaCall, measured, eviction>>
    /\ UNCHANGED otherThanQuota /\ UNCHANGED chromeAvailable

\* the usage of the storage area changes while the call is suspended
UsageChanges(b) ==
    /\ chromeAvailable
    /\ quotaPc \in {"measure", "evict measure", "remeasure"}
    /\ b # bytesInUse
    /\ bytesInUse' = b
    /\ UNCHANGED <<bills, storageQuota, quotaPc, quotaCall, measured, eviction>>
    /\ UNCHANGED otherThanQuota /\ UNCHANGED chromeAvailable

\* the usages the model gives the host: none, half, and the values around 70, 80, 90
\* and 95 percent of the limit, all of it
Usages == {0, 2621440, 3670016, 3670017, 4194303, 4194304, 4456448, 4718591, 4718592,
           4980735, 4980736, 5242880}
\* the target percentages the model passes to cleanupOldData
TargetPercentages == {-1, 50, DefaultTargetPercentage}
\* the collections: n bills, oldest first, newest first, or in no order and some
\* created at the same time
Oldest(n) == [i \in 1..n |-> i]
Newest(n) == [i \in 1..n |-> n + 1 - i]
Mixed(n) == [i \in 1..n |-> (i * 5) % 7]
Collections ==
    {Oldest(n) : n \in 0..MaxBills} \cup {Newest(n) : n \in 0..MaxBills}
        \cup {Mixed(n) : n \in 0..MaxBills}

InitQuota(usages, collections) ==
    /\ bytesInUse \in usages
    /\ bills \in collections
    /\ storageQuota = defaultQuota
    /\ quotaPc = "idle"
    /\ quotaCall = [op |-> "none", targetPercentage |-> 0]
    /\ measured = << >>
    /\ eviction = NoEviction

NextQuota ==
    \/ QuotaCall("checkStorageQuota", 0)
    \/ \E t \in TargetPercentages : QuotaCall("cleanupOldData", t)
    \/ QuotaCall("monitorAndCleanup", DefaultTargetPercentage)
    \/ MeasureResolves
    \/ EvictMeasureResolves
    \/ RemeasureResolves
    \/ GetBytesInUseRejects
    \/ \E b \in Usages : UsageChanges(b)

(***************************************************************************)
(* The codec, called on its own.                                           *)
(***************************************************************************)
NotCalled == [t |-> "not called"]

\* the optional fields an envelope may carry besides the required ones
OptionalFields ==
    {<< >>, << <<"datacontenttype", JStr("application/json")>> >>,
     << <<"dataschema", JStr("https://example.com/schema")>>,
        <<"datacontenttype", JStr("application/json")>> >>}

\* the data an envelope may carry, << >> for none
DataMembers ==
    {<< >>} \cup
    {<< <<"data", d>> >> :
        d \in {Get(e, "data") : e \in Decodable \ {NoData}}
                \cup {JNull, JArr(<< >>), JObj(<< <<"QBXML", JStr("<QBXML/>")>> >>),
                      JObj(<< <<"QBXML", JNull>> >>), Qbxml(JNull), Qbxml(JStr("none")),
                      Qbxml(JObj(<< >>)),
                      Qbxml(JObj(<< <<"BillQueryRs",
                          Rs("0", "Info", << <<"BillRet", JArr(<<JStr("none"), BillRet("2")>>)>> >>)>> >>)),
                      Qbxml(JObj(<< <<"BillQueryRs",
                          Rs("0", "Info", << <<"BillRet", JArr(<<BillRet("3")>>)>> >>)>> >>))}}

\* the envelopes that carry these of the required fields, one of them null if any
EnvelopesWith(fields) ==
    LET present == SelectSeq(MetaFields, LAMBDA p : p[1] \in fields)
        nulled == [i \in DOMAIN present |-> IF i = 1 THEN <<present[i][1], JNull>>
                                             ELSE present[i]]
    IN {JObj(m \o opt \o data) : m \in {present, nulled}, opt \in OptionalFields,
                                 data \in DataMembers}

\* values that are not keyed structures
NotKeyed ==
    {Undefined, JNull, JStr(""), JStr("OK"), JNum(0), JNum(42), JBool(FALSE), JBool(TRUE),
     JArr(<< >>), JArr(<<JStr("1.0"), JStr("id")>>)}

CodecInputs ==
    NotKeyed \cup UNION {EnvelopesWith(fields) :
                            fields \in SUBSET {requiredFields[i] : i \in DOMAIN requiredFields}}

\* the types, sources and payloads encodeCloudEvent is given
EncodeTypes == {JStr("com.quickbooks.bill.add"), JStr("")}
EncodeSources == {JStr("qb-chrome-extension"), JStr("")}
EncodePayloads ==
    Requests \cup {Undefined, JNull, JStr("plain"), Get(OkWithRet, "data"),
                   Get(QbFailure, "data")}
\* the times new Date().toISOString() gives
EncodeTimes == {JStr("2025-11-09T12:00:00.000Z"), JStr("2025-11-09T12:00:00.001Z")}

\* encodeCloudEvent(type, source, data), its result the value to decode
Encode(type, source, data) ==
    /\ codecArgs = NotCalled /\ codecResult = NotCalled
    /\ \E id \in EventIds, now \in EncodeTimes :
        /\ codecArgs' = [type |-> type, source |-> source, data |-> data, id |-> id]
        /\ codecInput' = encodeCloudEvent(type, source, data, id, now)
    /\ UNCHANGED codecResult
    /\ UNCHANGED otherThanCodec

\* decodeCloudEvent(rawPayload), called once
Decode ==
    /\ codecResult = NotCalled
    /\ codecResult' = decodeCloudEvent(codecInput)
    /\ UNCHANGED <<codecArgs, codecInput>>
    /\ UNCHANGED otherThanCodec

InitCodec(inputs) ==
    /\ codecArgs = NotCalled
    /\ codecInput \in inputs
    /\ codecResult = NotCalled

NextCodec ==
    \/ \E type \in EncodeTypes, source \in EncodeSources, data \in EncodePayloads :
            Encode(type, source, data)
    \/ Decode

\* a host with chrome.storage and no record
Init ==
    InitSend /\ InitStore({TRUE}, {Absent}) /\ InitQuota({0}, {<< >>}) /\ InitCodec({JNull})
\* any host, the record there or not
InitAnyHost ==
    /\ InitSend /\ InitStore(BOOLEAN, {Absent, "grid"})
    /\ InitQuota({0}, {<< >>}) /\ InitCodec({JNull})
\* any host, any usage, any collection
InitAnyUsage ==
    /\ InitSend /\ InitStore(BOOLEAN, {Absent})
    /\ InitQuota(Usages, Collections) /\ InitCodec({JNull})
\* any input of the codec
InitAnyInput ==
    /\ InitSend /\ InitStore({TRUE}, {Absent})
    /\ InitQuota({0}, {<< >>}) /\ InitCodec(CodecInputs)

\* the request client alone
SpecSend == Init /\ [][NextSend]_vars

\* the request client whose timers fire and whose sleeps end; the backend owes nothing
SpecSendLive ==
    /\ Init /\ [][NextSend]_vars
    /\ WF_vars(Tick) /\ WF_vars(TimeoutFires) /\ WF_vars(FetchAborted) /\ WF_vars(SleepDone)

\* two calls of the request client at a time
SpecPair == Init /\ [][NextPair]_vars

\* the request client alone, its sink any function
SpecSink == Init /\ [][NextSink]_vars

\* the persistent store alone
SpecStore == InitAnyHost /\ [][NextStore]_vars

\* two cells of one record, every storage call succeeding
SpecCells == InitAnyHost /\ [][NextCells]_vars

\* one cell, whose pending storage calls and notifications are eventually served
SpecStoreLive ==
    /\ InitAnyHost /\ [][NextStore]_vars
    /\ WF_vars(HydrateRead("panel") \/ HydrateFails("panel"))
    /\ WF_vars(HydrateThen("panel"))
    /\ WF_vars(DeliverChange("panel"))
    /\ WF_vars(WriteLands \/ WriteFails)

\* the quota monitor alone
SpecQuota == InitAnyUsage /\ [][NextQuota]_vars

\* the codec alone
SpecCodec == InitAnyInput /\ [][NextCodec]_vars

(***************************************************************************)
(* Properties of the request client.                                       *)
(***************************************************************************)
Terminal == sendPc \in {"returned", "thrown"}
InFlight == sendPc \in {"fetch", "text"}
Attempts == DOMAIN attemptLog
\* the attempt ended with a failure the loop retries
Retryable(i) == attemptLog[i].how \in {"fetch failed", "aborted", "body failed"}
\* the attempt received a response with a success status
Got2xx(i) == attemptLog[i].response # NoResponse /\ attemptLog[i].response.status \in 200..299
\* the attempt received a response with a non-success status
GotNon2xx(i) == attemptLog[i].response # NoResponse /\ attemptLog[i].response.status \notin 200..299
\* the body of the attempt arrived and is well-formed JSON
Parsed(i) == attemptLog[i].body # NoText /\ attemptLog[i].body.wf
\* ... and spells an envelope with the five required fields
Decoded(i) == Parsed(i) /\ decodeCloudEvent(attemptLog[i].body.v) # NoDecode
StatusOf(i) == decodeCloudEvent(attemptLog[i].body.v).responseAttributes
\* attempt i was the last transport call of the send call, which has ended
EndedCallAt(i) == Terminal /\ i = Len(attemptLog) /\ fetchCalls = i
\* no action that issues a transport call is enabled
NoFurtherCall == ~ENABLED (CallPost \/ CallSendEvent \/ SleepDone)

\* C1: with maxAttempts >= 1 and every transport call failing with a connection error,
\* send makes exactly maxAttempts transport calls, one after another, then fails with
\* a Network error, and makes no further transport call.
C1_ConnectionErrorsExhaustAttempts ==
    (sendPc # "idle" /\ retryState.maxRetries >= 1
        /\ \A i \in Attempts : attemptLog[i].how = "fetch failed")
    => /\ fetchCalls <= retryState.maxRetries
       /\ fetchCalls = Len(attemptLog) + (IF InFlight THEN 1 ELSE 0)
       /\ sendPc # "returned"
       /\ Len(attemptLog) = retryState.maxRetries => sendPc = "thrown"
       /\ sendPc = "thrown" =>
            /\ fetchCalls = retryState.maxRetries
            /\ result.kind = "thrown" /\ result.error.name = "NetworkError"
            /\ NoFurtherCall

C1_Witness ==
    /\ sendPc = "thrown" /\ retryState.maxRetries = 3 /\ fetchCalls = 3
    /\ \A i \in Attempts : attemptLog[i].how = "fetch failed"

\* C2: an attempt that receives a non-2xx response ends the call: no further transport
\* call, and an HTTPError carrying the status, the status text and the raw body.
C2_Non2xxEndsCallWithHTTPError ==
    /\ (sendPc = "text" /\ response.status \notin 200..299) => fetchCalls = retryState.attempt
    /\ \A i \in Attempts : GotNon2xx(i) =>
            /\ EndedCallAt(i)
            /\ NoFurtherCall
            /\ result.kind = "thrown" /\ result.error.name = "HTTPError"
            /\ result.error.status = attemptLog[i].response.status
            /\ result.error.statusText = attemptLog[i].response.statusText
            /\ attemptLog[i].body # NoText
            /\ result.error.responseBody = attemptLog[i].body

\* C3: a 2xx response that decodes with a status code other than "0" ends the call at
\* that attempt with a QBError carrying that status code and severity.
C3_QBStatusEndsCallWithQBError ==
    \A i \in Attempts :
        (Got2xx(i) /\ Decoded(i) /\ StatusOf(i) # JNull /\ StatusOf(i).statusCode # JStr("0"))
        => /\ EndedCallAt(i)
           /\ NoFurtherCall
           /\ result.kind = "thrown" /\ result.error.name = "QBError"
           /\ result.error.statusCode = StatusOf(i).statusCode
           /\ result.error.severity = StatusOf(i).statusSeverity
           /\ (\A j \in Attempts : j < i => Retryable(j))

C3_Witness ==
    /\ sendPc = "thrown" /\ retryState.maxRetries = 3 /\ fetchCalls = 1
    /\ attemptLog[1].body = Text(QbFailure)
    /\ result.error = QBError(JStr("msg 3100"), JStr("3100"), JStr("Error"))

\* C4: a 2xx response whose body is not well-formed JSON, or whose parsed body fails
\* the envelope decode, ends the call at that attempt with a ParseError.
C4_MalformedBodyEndsCallWithParseError ==
    \A i \in Attempts :
        (Got2xx(i) /\ attemptLog[i].body # NoText /\ ~Decoded(i))
        => /\ EndedCallAt(i)
           /\ NoFurtherCall
           /\ result.kind = "thrown" /\ result.error.name = "ParseError"

C4_Witness ==
    /\ sendPc = "thrown" /\ retryState.maxRetries = 3 /\ fetchCalls = 2
    /\ attemptLog[2].body = Text(EnvelopeWithout("time"))
    /\ result.error.name = "ParseError"

\* C5: after a retryable failure of attempt k < maxAttempts send suspends for exactly
\* 2^(k-1) x 1000 ms, and attempt k+1 starts only when that delay has elapsed.
C5_BackoffDoublesFromOneSecond ==
    /\ \A k \in DOMAIN backoffs : backoffs[k] = (2 ^ (k - 1)) * 1000
    /\ \A i \in Attempts :
            (Retryable(i) /\ i < retryState.maxRetries) => Len(backoffs) >= i
    /\ sendPc = "sleep" =>
            /\ Len(backoffs) = retryState.attempt
            /\ slept + sleepLeft = backoffs[retryState.attempt]
    /\ (sendPc # "sleep" /\ retryState.attempt >= 2) =>
            /\ Len(backoffs) = retryState.attempt - 1
            /\ slept = backoffs[retryState.attempt - 1]

C5_Witness ==
    /\ sendPc = "fetch" /\ retryState.attempt = 3
    /\ backoffs = <<1000, 2000>> /\ slept = 2000
    /\ attemptLog[1].how = "fetch failed" /\ attemptLog[2].how = "aborted"

\* C6: a transport call still in flight when its timeout elapses is cancelled, it
\* alone; the attempt is classified Timeout with the configured timeout, and the loop
\* goes on: with attempts left the call sleeps and tries again.
C6_TimeoutCancelsOneAttemptOnly ==
    /\ sendPc = "fetch" =>
            \/ ~aborted /\ \E tm \in timers : tm.id = retryState.attempt
            \/ aborted /\ timers = {}
    /\ \A i \in Attempts : attemptLog[i].how = "aborted" =>
            /\ i < retryState.maxRetries =>
                    /\ Len(backoffs) >= i
                    /\ (i = Len(attemptLog) => sendPc \in {"sleep", "fetch", "text"})
                    /\ (sendPc # "sleep" => fetchCalls > i)
            /\ (i = retryState.maxRetries /\ i = Len(attemptLog)) =>
                    /\ sendPc = "thrown"
                    /\ result = Thrown(TimeoutError(options.timeout))
    /\ (sendPc # "idle" /\ retryState.lastError.name = "TimeoutError") =>
            retryState.lastError.timeoutMs = options.timeout

C6_Witness ==
    /\ sendPc = "fetch" /\ ~aborted /\ fetchCalls = 2
    /\ attemptLog[1].how = "aborted"
    /\ options.timeout = 5000
    /\ retryState.lastError = TimeoutError(5000)

\* the response child that carries the status holds a return object: a member whose
\* key ends in Ret and whose value is a record, or a list that starts with a record
ReturnObjectOf(doc) ==
    LET msgs == Get(Get(Get(doc, "data"), "QBXML"), "QBXMLMsgsRs")
        child == Get(msgs, FindKey(Keys(msgs), {k \in KeySet(Keys(msgs)) : ~StartsWithAt(k)}))
        member == Get(child, FindKey(Keys(child), {k \in KeySet(Keys(child)) : EndsWithRet(k)}))
    IN IF member.t = "arr" /\ Len(member.a) > 0 THEN member.a[1] ELSE member
HoldsReturnObject(doc) == ReturnObjectOf(doc).t = "obj"

\* C7: when the first k attempts fail with Network or Timeout and attempt k+1 receives
\* a 2xx response that decodes with status code "0", the call returns that decoded
\* response (its record snapshot non-null when the response holds a return object)
\* after exactly k+1 transport calls.
C7_SuccessAfterRetries ==
    \A i \in Attempts :
        (Got2xx(i) /\ Decoded(i) /\ StatusOf(i) # JNull /\ StatusOf(i).statusCode = JStr("0"))
        => /\ sendPc = "returned"
           /\ i = Len(attemptLog) /\ fetchCalls = i
           /\ result.kind = "returned"
           /\ result.decoded.meta.id = Get(attemptLog[i].body.v, "id")
           /\ result.decoded.responseAttributes.statusCode = JStr("0")
           /\ HoldsReturnObject(attemptLog[i].body.v) =>
                    /\ result.decoded.transactionDetails # JNull
                    /\ result.decoded.transactionDetails.TxnID
                            = Get(ReturnObjectOf(attemptLog[i].body.v), "TxnID")
           /\ \A j \in Attempts : j < i => Retryable(j)

C7_Witness ==
    /\ sendPc = "returned" /\ fetchCalls = 3
    /\ attemptLog[1].how = "fetch failed" /\ attemptLog[2].how = "aborted"
    /\ attemptLog[3].body = Text(OkWithRet)
    /\ result.decoded.transactionDetails # JNull

\* the error kind an attempt that ended this way is classified as
KindOf(how) ==
    CASE how \in {"fetch failed", "body failed"} -> "NetworkError"
      [] how = "aborted" -> "TimeoutError"
      [] how = "http" -> "HTTPError"
      [] how \in {"parse", "decode"} -> "ParseError"
      [] how = "qb" -> "QBError"
      [] OTHER -> "none"

\* C8: a call that has ended returned a decoded response or threw exactly one of the
\* five kinds; it returned only if its last attempt received a 2xx response that
\* parsed, decoded and carried no status or status "0"; the classification of its last
\* attempt is what it threw, and every earlier attempt was retried.
C8_OutcomeIsClassified ==
    Terminal =>
        /\ result.kind \in {"returned", "thrown"}
        /\ sendPc = "returned" <=> result.kind = "returned"
        /\ result.kind = "thrown" =>
                /\ result.error.name \in {"NetworkError", "TimeoutError", "HTTPError",
                                          "ParseError", "QBError"}
                /\ Len(attemptLog) >= 1 =>
                        result.error.name = KindOf(attemptLog[Len(attemptLog)].how)
                /\ Len(attemptLog) = 0 => retryState.maxRetries <= 0
        /\ result.kind = "returned" =>
                LET i == Len(attemptLog) IN
                /\ i >= 1 /\ attemptLog[i].how = "ok"
                /\ Got2xx(i) /\ Decoded(i)
                /\ result.decoded = decodeCloudEvent(attemptLog[i].body.v)
                /\ StatusOf(i) = JNull \/ StatusOf(i).statusCode = JStr("0")
        /\ \A j \in Attempts : j < Len(attemptLog) => Retryable(j)
        /\ \A j \in Attempts : attemptLog[j].how # "ok" /\ ~Retryable(j) =>
                result.kind = "thrown" /\ j = Len(attemptLog)

C8_Witness ==
    /\ sendPc = "thrown" /\ Len(attemptLog) = 3
    /\ attemptLog[1].how = "aborted" /\ attemptLog[2].how = "body failed"
    /\ attemptLog[3].how = "http"
    /\ result.error.name = "HTTPError"

\* the state of the call, as the state machine names it
StateOf(pc) ==
    IF pc = "idle" THEN "Idle"
    ELSE IF pc \in {"fetch", "text"} THEN "Attempting"
    ELSE IF pc = "sleep" THEN "Retrying"
    ELSE IF pc = "returned" THEN "Success"
    ELSE "Failed"

\* C26: a call changes its state from Idle to Attempting, from Attempting to Success,
\* Failed or Retrying and from Retrying to Attempting, and in no other way; nothing
\* changes after Success or Failed; and the call is never Retrying once it has made
\* as many attempts as it is allowed.
C26_OnlyListedTransitions ==
    /\ [](sendPc = "sleep" => retryState.attempt < retryState.maxRetries)
    /\ [][StateOf(sendPc') # StateOf(sendPc)
            => <<StateOf(sendPc), StateOf(sendPc')>> \in
                    {<<"Idle", "Attempting">>, <<"Attempting", "Success">>,
                     <<"Attempting", "Failed">>, <<"Attempting", "Retrying">>,
                     <<"Retrying", "Attempting">>}]_vars
    /\ [][Terminal => UNCHANGED <<sendPc, retryState, result, fetchCalls, backoffs>>]_vars

\* the transport calls of the call that have not been classified
Unclassified == fetchCalls - Len(attemptLog)

\* C27: at most one transport call of a call is unclassified at any time, and that one
\* only while the call awaits fetch or the body; a transport call is issued only when
\* every earlier one has been classified, and it is the only one then.
C27_AttemptsAreSequential ==
    /\ [](Unclassified \in {0, 1} /\ (Unclassified = 1 <=> InFlight))
    /\ [][fetchCalls' # fetchCalls
            => /\ fetchCalls' = fetchCalls + 1
               /\ Unclassified = 0 /\ ~InFlight
               /\ Len(attemptLog') = Len(attemptLog)
               /\ retryState'.attempt = fetchCalls']_vars

\* the third transport call is awaited, the two before it classified as failures
C27_Witness ==
    /\ fetchCalls = 3 /\ sendPc = "fetch"
    /\ Len(attemptLog) = 2
    /\ attemptLog[1].how = "aborted" /\ attemptLog[2].how = "fetch failed"

\* the attempt received a response
Responded(i) == attemptLog[i].response # NoResponse

\* C25: a call does what a call without a sink does on the same transport results: it
\* ends only after a transport call, if it is allowed one; the body of every response
\* it receives is read; and what it throws is the classification of its last
\* transport result, one of the five kinds.
C25_SinkIsObservational ==
    /\ (Terminal /\ retryState.maxRetries >= 1) => fetchCalls >= 1
    /\ \A i \in Attempts :
            Responded(i) => attemptLog[i].how \in {"ok", "http", "parse", "decode", "qb",
                                                   "body failed"}
    /\ (Terminal /\ result.kind = "thrown")
            => /\ result.error.name \in {"NetworkError", "TimeoutError", "HTTPError",
                                         "ParseError", "QBError"}
               /\ Len(attemptLog) >= 1 =>
                        result.error.name = KindOf(attemptLog[Len(attemptLog)].how)

\* the attempts of call i that ended with a failure the loop retried
RetriedBy(i) ==
    {k \in DOMAIN sends[i].log :
        /\ KindOf(sends[i].log[k]) \in {"NetworkError", "TimeoutError"}
        /\ k < sends[i].retryState.maxRetries}

\* C24: with two calls under way in any interleaving, each call's fetch is aborted by
\* its own timer only; its attempt count is the number of its own transport results,
\* plus one while it awaits one; its delays are 1000, 2000, ... ms, one for each of
\* its own failures it retried, and each lasts as long as was computed; and it
\* returns or throws what its own last transport result is classified as.
C24_CallsDoNotInterfere ==
    \A i \in CallIds :
        LET c == sends[i] IN
        /\ c.abortedBy \subseteq {i}
        /\ c.fetchCalls = Len(c.log) + (IF c.pc \in {"fetch", "text"} THEN 1 ELSE 0)
        /\ c.retryState.attempt = c.fetchCalls
        /\ c.backoffs = [k \in 1..Cardinality(RetriedBy(i)) |-> calculateBackoff(k)]
        /\ c.pc = "sleep" => c.slept + c.sleepLeft = c.backoffs[Len(c.backoffs)]
        /\ c.pc = "returned" => c.log[Len(c.log)] = "ok" /\ c.result = "returned"
        /\ c.pc = "thrown" => c.result = KindOf(c.log[Len(c.log)])
        /\ \A k \in DOMAIN c.log : k < Len(c.log) => k \in RetriedBy(i)

\* the timer of call 1 has just cancelled its first attempt and call 1 starts its
\* delay, while the first fetch of call 2, issued before that, is still pending and
\* not cancelled
C24_Witness ==
    /\ sends[1].log = <<"aborted">> /\ sends[1].pc = "sleep" /\ sends[1].slept = 0
    /\ sends[2].pc = "fetch" /\ ~sends[2].aborted /\ sends[2].fetchCalls = 1
    /\ \E tm \in sends[2].timers : tm.left > 0 /\ tm.left < sends[2].timeout

\* C34: every call ends, returned or thrown, after at most maxRetries transport calls
\* and at most maxRetries - 1 backoff delays, however long the backend stays silent
\* during an attempt, the reading of the response body included.
C34_CallEndsWhateverTheBackend ==
    /\ [](fetchCalls <= Max(retryState.maxRetries, 0)
            /\ Len(backoffs) <= Max(retryState.maxRetries - 1, 0))
    /\ (sendPc # "idle") ~> Terminal

C36_OneTimerAndNoneLeft ==
    /\ Cardinality(timers) <= 1
    /\ sendPc \in {"idle", "sleep", "returned", "thrown"} => timers = {}
C36_Witness ==
    /\ sendPc = "fetch" /\ retryState.attempt = 3
    /\ attemptLog[1].how = "fetch failed" /\ attemptLog[2].how = "aborted"
    /\ \E tm \in timers : tm.id = 3 /\ tm.left < options.timeout

\* C37: every attempt of a call sends the same envelope, the one the call was given
\* or, for sendCloudEventToBackend, encoded once: same id, same time, same data.
C37_AttemptsCarryOneEnvelope ==
    \A i \in 1..Len(sentBodies) :
        /\ sentBodies[i] = sentBodies[1]
        /\ sentBodies[i] = Text(cloudEvent)
C37_Witness ==
    /\ Len(sentBodies) = 3
    /\ Get(cloudEvent, "id") \in EventIds
    /\ Get(sentBodies[3].v, "id") = Get(cloudEvent, "id")
    /\ Get(sentBodies[3].v, "time") = Get(sentBodies[1].v, "time")

\* C40: the status attributes and the transaction details are read from the same
\* child of QBXMLMsgsRs, so a call that returns transaction details returns those of
\* a child whose own @statusCode is "0".
C40_SnapshotAndStatusFromOneChild ==
    (sendPc = "returned" /\ result.decoded.transactionDetails # JNull)
        => LET doc == JSONParse(attemptLog[Len(attemptLog)].body)
               msgs == Get(Get(Get(doc, "data"), "QBXML"), "QBXMLMsgsRs")
               responseKey == FindKey(Keys(msgs),
                                      {k \in KeySet(Keys(msgs)) : ~StartsWithAt(k)})
           IN /\ txnResponseKeyOf(msgs) = responseKey
              /\ Get(Get(msgs, txnResponseKeyOf(msgs)), "@statusCode") = JStr("0")

(***************************************************************************)
(* Properties of the persistent store.                                     *)
(***************************************************************************)
\* the cell is between its creation and the end of its storage.get
Hydrating(c) == cells[c].hydration \in {"reading", "read"}
\* the step delivers the oldest notification queued for cell c to its listener
Delivered(c) == events[c] # << >> /\ events'[c] = Tail(events[c])

\* C9: whenever a change notification for the cell's key and area is delivered to the
\* cell, hydrating or idle, the in-memory value becomes the notified new value and no
\* storage.set is issued by that delivery.
C9_NotificationSetsValueWithoutWrite ==
    [][\A c \in Cells :
            Delivered(c) =>
                /\ cells'[c].value = Head(events[c]).newValue
                /\ writes' = writes]_vars

\* a notification was delivered while the storage.get of the cell was still pending, to
\* a cell holding another value, and left no write behind
C9_Witness ==
    /\ lastOp.op = "changed" /\ lastOp.cell = "panel"
    /\ Hydrating("panel")
    /\ lastOp.value # InitialValue
    /\ cells["panel"].value = lastOp.value
    /\ writes = << >>

\* C10: after set(v) or update on a cell of a host with chrome.storage, a storage.set of
\* v under the cell's key is issued (so that the record becomes v once it lands).
C10_MutationIssuesWrite ==
    (lastOp.op \in {"set", "update"} /\ chromeAvailable) =>
        /\ lastOp.wrote
        /\ writes # << >>
        /\ writes[Len(writes)] = [cell |-> lastOp.cell, value |-> lastOp.value]

\* C11: the in-memory update made when the storage.get of the cell completes never
\* issues a storage.set, whatever mutations and notifications came before it.
C11_HydrationNeverWrites ==
    lastOp.op = "hydrate" => ~lastOp.wrote

C13_EchoNeverChangesValue ==
    [][\A c \in Cells :
            (Delivered(c) /\ Head(events[c]).by = c)
                => cells'[c].value = cells[c].value]_vars

\* C14: when the storage.set a mutation issued is rejected, the cell keeps its value,
\* the rejection changes nothing but the set of writes in flight, which loses the
\* rejected write for good: it is not issued again.
C14_WriteFailureKeepsValueNoRetry ==
    [][lastOp'.op = "rejected"
            => /\ writes # << >>
               /\ cells' = cells
               /\ storageRec' = storageRec
               /\ events' = events
               /\ writes' = Tail(writes)
               /\ ~lastOp'.wrote]_vars

\* the only write of a set was rejected: the cell holds the value, the record does not
C14_Witness ==
    /\ lastOp.op = "rejected" /\ lastOp.cell = "panel"
    /\ mutations = 1
    /\ cells["panel"].value = lastOp.value
    /\ storageRec # lastOp.value
    /\ writes = << >>

C29_ForeignChangeIsIgnored ==
    [][lastOp'.op = "foreign"
            => /\ cells' = cells
               /\ ~lastOp'.wrote
               /\ writes' = writes]_vars

\* a hydrated cell was told of a change of its key in the other storage area, to a
\* value it does not hold, and holds what it held
C29_Witness ==
    /\ lastOp.op = "foreign" /\ lastOp.cell = "panel"
    /\ cells["panel"].hydration = "done" /\ ~cells["panel"].isInitializing
    /\ cells["panel"].value # lastOp.value
    /\ writes = << >>

\* C33: the writes of a cell are batched: after two or more mutations of the cell
\* fewer calls of storage.set are in flight than mutations were made.
C33_WritesAreBatched ==
    mutations >= 2 => Len(writes) < mutations

\* C32: whatever calls of persistentStore are made for one key and one storage area,
\* at most one cell exists for them: a second call does not make a second cell with
\* its own hydration, its own subscriber and its own listener.
C32_OneCellPerKeyAndArea ==
    Cardinality({c \in Cells : cells[c].created}) <= 1

\* C38: a cell whose storage.get is pending eventually has its flag isInitializing
\* down for good, whether the storage.get resolves or rejects, so that the mutations
\* made after the read has ended are written.
C38_HydrationEndsIdle ==
    \A c \in Cells :
        (cells[c].hydration = "reading") ~> [](~cells[c].isInitializing)

\* the storage calls and the notifications of every cell are over
Quiescent ==
    /\ writes = << >>
    /\ \A c \in Cells : events[c] = << >> /\ cells[c].hydration \in {"none", "done"}
\* the cell holds what the record holds; with no record, the initial value
InStep(c) ==
    IF storageRec = Absent THEN cells[c].value = InitialValue
    ELSE cells[c].value = storageRec

\* C39: once every storage.get, every storage.set and every notification of the cells
\* of one record is over, each of them having succeeded, every cell with storage
\* holds the value of the record, also after a mutation made during hydration.
C39_CellsConvergeToRecord ==
    Quiescent => \A c \in Cells : cells[c].synced => InStep(c)

(***************************************************************************)
(* Properties of the quota monitor.                                        *)
(***************************************************************************)
\* the number of bills the call of cleanupOldData took out of the collection
Removed == Len(eviction.before) - Len(eviction.after)
\* cleanupOldData ran and found the usage above its target
EvictionDue ==
    eviction.called /\ ~PercentAtMost(eviction.quota.percentUsed, eviction.targetPercentage)

\* C15: every snapshot checkStorageQuota produces has status ok below 80 percent,
\* warning from 80 to below 95, critical at 95 and above.
C15_BandsAt80And95 ==
    \A i \in DOMAIN measured :
        LET q == measured[i] IN
        /\ q.percentUsed = Percent(q.bytesInUse, q.quota)
        /\ q.status = IF ~PercentAtLeast(q.percentUsed, 80) THEN "ok"
                      ELSE IF ~PercentAtLeast(q.percentUsed, 95) THEN "warning"
                      ELSE "critical"

\* C16: after a call of cleanupOldData the collection holds at least min(10, its size
\* before the call) bills.
C16_EvictKeepsTenBills ==
    eviction.called =>
        /\ bills = eviction.after
        /\ Len(eviction.after) >= Min(10, Len(eviction.before))
        /\ Len(eviction.after) <= Len(eviction.before)

\* twelve bills, far more bytes to free than two bills hold: ten bills are left
C16_Witness ==
    /\ EvictionDue
    /\ Len(eviction.before) = 12 /\ Len(eviction.after) = 10
    /\ eviction.quota.status = "critical"

\* C17: when the usage exceeds the target, one call of cleanupOldData removes exactly
\* min(max(0, size - 10), ceiling(bytesToFree / averageEntryCost)) bills, with
\* bytesToFree = bytesInUse - target% of the limit and averageEntryCost = bytesInUse /
\* size (500 when there is none), both taken once, from the collection as it was.
C17_EvictRemovesComputedCount ==
    EvictionDue =>
        LET size == Len(eviction.before)
            q == eviction.quota
            bytesToFreeTimes100 == q.bytesInUse * 100 - eviction.targetPercentage * q.quota
            averageEntryCost == IF size = 0 \/ q.bytesInUse = 0 THEN 500
                                ELSE CeilDiv(q.bytesInUse, size)
        IN Removed = Min(Max(0, size - 10), CeilDiv(bytesToFreeTimes100, 100 * averageEntryCost))

\* C18: the count cleanupOldData returns is the number of bills the call removed.
C18_EvictReturnsRemovedCount ==
    eviction.called => eviction.returned = Removed

\* C19: monitorAndCleanup calls cleanupOldData only when the status it measured is
\* critical, with target 70, and the cleanup is followed by a measure again; when the
\* status is warning or ok the collection is not modified.
C19_MonitorCleansOnlyWhenCritical ==
    /\ [](quotaCall.op = "monitorAndCleanup" =>
            /\ eviction.called =>
                    /\ Len(measured) >= 2 /\ measured[1].status = "critical"
                    /\ eviction.targetPercentage = 70
                    /\ quotaPc \in {"remeasure", "done", "failed"}
                    /\ quotaPc = "done" => Len(measured) = 3
            /\ (quotaPc = "done" /\ measured[1].status = "critical") =>
                    eviction.called /\ Len(measured) = 3
            /\ (Len(measured) >= 1 /\ measured[1].status # "critical") =>
                    ~eviction.called /\ quotaPc = "done" /\ Len(measured) = 1)
    /\ [][(quotaCall.op = "monitorAndCleanup" /\ bills' # bills) =>
                measured[1].status = "critical"]_vars

\* a critical measure, a cleanup that removed bills, the measure again
C19_Witness ==
    /\ quotaCall.op = "monitorAndCleanup" /\ quotaPc = "done"
    /\ measured[1].status = "critical"
    /\ eviction.called /\ Removed > 0
    /\ Len(measured) = 3 /\ storageQuota = measured[3]

\* the number of bills of a collection created at t
CreatedAt(bs, t) == Cardinality({i \in DOMAIN bs : bs[i] = t})
\* the creation times of the bills a call of cleanupOldData took out
RemovedTimes ==
    {t \in {eviction.before[i] : i \in DOMAIN eviction.before} :
        CreatedAt(eviction.before, t) > CreatedAt(eviction.after, t)}

\* C30: a call of cleanupOldData only takes bills out of the collection, and every
\* bill it takes out was created no later than every bill it leaves.
C30_EvictRemovesOldest ==
    eviction.called =>
        /\ bills = eviction.after
        /\ \A i \in DOMAIN eviction.after :
                CreatedAt(eviction.after, eviction.after[i])
                    <= CreatedAt(eviction.before, eviction.after[i])
        /\ \A t \in RemovedTimes : \A i \in DOMAIN eviction.after : t <= eviction.after[i]

\* a collection in no order: the bills taken out are the oldest, one of those left was
\* created at the same time as one taken out
C30_Witness ==
    /\ EvictionDue /\ Removed > 0
    /\ eviction.before # sortedBills(eviction.before)
    /\ \E t \in RemovedTimes : \E i \in DOMAIN eviction.after : eviction.after[i] = t
    /\ \E i \in DOMAIN eviction.after : \A t \in RemovedTimes : t < eviction.after[i]

\* C31: a call of cleanupOldData that finds the percentage used at or below its
\* target returns 0, leaves the collection as it was and calls billCache.set not once.
C31_EvictBelowTargetIsNoOp ==
    (eviction.called /\ ~EvictionDue)
        => /\ eviction.returned = 0
           /\ eviction.after = eviction.before
           /\ bills = eviction.before
           /\ eviction.sets = 0

\* twelve bills and a usage of exactly the target of 70 percent: nothing is done
C31_Witness ==
    /\ eviction.called /\ ~EvictionDue
    /\ eviction.targetPercentage = DefaultTargetPercentage
    /\ eviction.quota.bytesInUse * 100 = DefaultTargetPercentage * eviction.quota.quota
    /\ Len(eviction.before) = 12 /\ bills = eviction.before
    /\ eviction.returned = 0

(***************************************************************************)
(* Properties of the codec.                                                *)
(***************************************************************************)
\* the five fields the claims name
FiveFields == {"specversion", "id", "source", "type", "time"}
\* the input is a keyed structure
Keyed(v) == v.t = "obj"
\* the keyed input has a member of this name
Has(v, f) == \E i \in DOMAIN v.kv : v.kv[i][1] = f

\* C20: decodeCloudEvent fails for every input that is not a keyed structure and for
\* every keyed input that lacks one of specversion, id, source, type, time; a result
\* it returns carries all five, as the input has them: never a part of the metadata.
C20_DecodeRejectsIncompleteEnvelopes ==
    codecResult # NotCalled =>
        /\ ~Keyed(codecInput) => codecResult = NoDecode
        /\ (Keyed(codecInput) /\ \E f \in FiveFields : ~Has(codecInput, f))
                => codecResult = NoDecode
        /\ codecResult # NoDecode =>
                /\ FiveFields \subseteq DOMAIN codecResult.meta
                /\ \A f \in FiveFields :
                        \E i \in DOMAIN codecInput.kv :
                            codecInput.kv[i] = <<f, codecResult.meta[f]>>

\* an envelope with its data and four of the five fields, the time missing: rejected
C20_Witness ==
    /\ Keyed(codecInput)
    /\ \A f \in FiveFields : Has(codecInput, f) <=> f # "time"
    /\ Has(codecInput, "data")
    /\ codecResult = NoDecode

\* the value is a structure with members
Structure(v) == v.t \in {"obj", "arr"}
\* the input's payload, its protocol wrapper and its response container
PayloadOf(v) == Get(v, "data")
WrapperOf(v) == Get(PayloadOf(v), "QBXML")
ContainerOf(v) == Get(WrapperOf(v), "QBXMLMsgsRs")
\* the payload lacks the nested structure at some level: it is no structure, or its
\* wrapper is none, or its container is none, or the container has attributes only
LacksStructure(v) ==
    \/ ~Structure(PayloadOf(v))
    \/ ~Structure(WrapperOf(v))
    \/ ~Structure(ContainerOf(v))
    \/ \A k \in KeySet(Keys(ContainerOf(v))) : StartsWithAt(k)

\* C21: for every keyed input that has a value, null included, for each of specversion,
\* id, source, type and time, decodeCloudEvent returns a result; the result's
\* responseAttributes and transactionDetails are both null when the input has no data
\* object, or the data no QBXML object, or that no QBXMLMsgsRs object, or that no
\* child besides its attributes.
C21_DecodeSucceedsNullWithoutStructure ==
    (/\ codecResult # NotCalled
     /\ Keyed(codecInput)
     /\ \A f \in FiveFields : Get(codecInput, f) # Undefined)
        => /\ codecResult # NoDecode
           /\ LacksStructure(codecInput)
                => /\ codecResult.responseAttributes = JNull
                   /\ codecResult.transactionDetails = JNull

\* a complete envelope whose response container holds a request identifier and no
\* response child: decoded, with neither attributes nor details
C21_Witness ==
    /\ codecResult # NotCalled /\ codecResult # NoDecode
    /\ \A f \in FiveFields : Get(codecInput, f) # Undefined
    /\ Structure(ContainerOf(codecInput))
    /\ Keys(ContainerOf(codecInput)) = <<"@requestID">>
    /\ codecResult.responseAttributes = JNull
    /\ codecResult.transactionDetails = JNull

\* the call decoded what encodeCloudEvent built
RoundTrip == codecArgs # NotCalled /\ codecResult # NotCalled

\* the values a decoded event holds: its metadata, its attributes and its details
HeldBy(decoded) ==
    {decoded.meta[f] : f \in DOMAIN decoded.meta}
        \cup {decoded.responseAttributes, decoded.transactionDetails}

\* C22 as stated: decodeCloudEvent of what encodeCloudEvent built returns a result
\* that holds the type, the source and the payload encodeCloudEvent was given and
\* the identifier it drew.
C22_RoundTripRecoversPayload ==
    RoundTrip =>
        /\ codecResult # NoDecode
        /\ codecResult.meta["type"] = codecArgs.type
        /\ codecResult.meta["source"] = codecArgs.source
        /\ codecResult.meta["id"] = codecArgs.id
        /\ codecArgs.data \in HeldBy(codecResult)

\* C22: decodeCloudEvent of what encodeCloudEvent built returns a result whose
\* metadata holds the type and the source encodeCloudEvent was given and the
\* identifier it drew; the result has the metadata, the response attributes and the
\* transaction details and no member for the payload.
C22_RoundTripRecoversMetadata ==
    RoundTrip =>
        /\ codecResult # NoDecode
        /\ codecResult.meta["type"] = codecArgs.type
        /\ codecResult.meta["source"] = codecArgs.source
        /\ codecResult.meta["id"] = codecArgs.id
        /\ DOMAIN codecResult = {"t", "meta", "responseAttributes", "transactionDetails"}
        /\ "data" \notin DOMAIN codecResult.meta

\* a request payload encoded and decoded: the metadata is back, the payload is not
C22_Witness ==
    /\ RoundTrip
    /\ codecArgs.data \in Requests
    /\ codecResult # NoDecode
    /\ codecResult.meta["id"] = codecArgs.id
    /\ codecArgs.data \notin HeldBy(codecResult)

\* the nested return object: the member whose key ends in Ret of the first response
\* child that is no text
ReturnMemberOf(v) ==
    LET msgs == ContainerOf(v)
        child == Get(msgs, FindKey(Keys(msgs),
                        {k \in KeySet(Keys(msgs)) : ~StartsWithAt(k) /\ Get(msgs, k).t # "str"}))
    IN Get(child, FindKey(Keys(child), {k \in KeySet(Keys(child)) : EndsWithRet(k)}))

\* C23: when the member ending in Ret that decodeCloudEvent finds is a list, the
\* transaction details are null if the list is empty and are read from the first
\* element if it is not: they carry the first element's TxnID when that element is a
\* record, and are null when it is not, whatever the later elements are.
C23_ListGivesFirstElementOrNull ==
    (/\ codecResult # NotCalled /\ codecResult # NoDecode
     /\ ReturnMemberOf(codecInput).t = "arr")
        => LET list == ReturnMemberOf(codecInput).a IN
           /\ list = << >> => codecResult.transactionDetails = JNull
           /\ (list # << >> /\ list[1].t = "obj")
                => /\ codecResult.transactionDetails # JNull
                   /\ codecResult.transactionDetails.TxnID = Get(list[1], "TxnID")
           /\ (list # << >> /\ list[1].t # "obj")
                => codecResult.transactionDetails = JNull

\* a list of two records with different identifiers: the details are the first's
C23_Witness ==
    /\ codecResult # NotCalled /\ codecResult # NoDecode
    /\ ReturnMemberOf(codecInput).t = "arr"
    /\ Len(ReturnMemberOf(codecInput).a) = 2
    /\ Get(ReturnMemberOf(codecInput).a[1], "TxnID") = JStr("1")
    /\ Get(ReturnMemberOf(codecInput).a[2], "TxnID") = JStr("2")
    /\ codecResult.transactionDetails # JNull
    /\ codecResult.transactionDetails.TxnID = JStr("1")

====
